---- MODULE Spec2Model ----
(***************************************************************************)
(* A model of crown-controller: the HID frame decoder (src/src/hid.rs),    *)
(* the configuration resolver (src/src/config.rs) and the event router     *)
(* (src/src/main.rs).                                                      *)
(*                                                                         *)
(* Option<T> is modelled as a sequence of length at most one: None is <<>> *)
(* and Some(x) is <<x>>.                                                   *)
(***************************************************************************)
EXTENDS Integers, Sequences, FiniteSets, TLC

VARIABLES
    data,           \* decode_event: the frame handed to the decoder
    event,          \* decode_event: Option<CrownEvent>, the decoded frame
    from_v,         \* Modifier::from: the u8 bitmask
    from_out,       \* Modifier::from: Option<Modifier>, the result
    config,         \* main.rs `config`: the ConfigFile struct
    file,           \* the configuration file on disk (environment)
    call,           \* the last Resolver call: its arguments and result
    dev_found,      \* hid_listener: find_hidraw_device returned a path
    hid_pc,         \* hid_listener: where the thread is
    hid_events,     \* hid_listener: `events`, the tokens poll returned
    ratchet_enabled, \* hid_listener local
    modifiers,      \* hid_listener local
    had_rotation,   \* hid_listener local
    hid_cmds,       \* the CrownCommands channel (my_sender -> receiver)
    waker_ready,    \* the Waker's readiness event is pending in the Poll
    hidraw_ready,   \* the device node's readable event is pending
    dev_in,         \* number of frames the device node holds unread
    fh_written,     \* Option: the last frame written to the device node
    handler_pc,     \* HidHandler caller: between send and wake
    hid_event,      \* Option<CrownEvent>: the frame decoded last
    hid_out,        \* the StateChanges sent while handling that frame
    since_press,    \* what followed the last Pressed frame
    sent_rotation,  \* a CrownRotated was sent since the last Pressed frame
    last_mode,      \* main: the Router's tracked RatchetMode
    last_modifiers, \* main: the Router's tracked Modifier
    res,            \* main: Option, the message `receiver.recv()` returned last
    sent_cmds,      \* the CrownCommands sent while handling that message
    executed,       \* the keys sent and processes launched while handling it
    keys_down,      \* the display server's keymap: the keycodes that are down
    sk_call,        \* Option, the arguments of the last send_keypress call
    sk_before,      \* the keycodes that were down when that call began
    injected,       \* the fake_input events of that call, in order
    kn_modifiers,   \* a key name's parts before the last `+`, as written
    kn_key,         \* its part after the last `+`, as written
    kn_out,         \* Option, what deserialize_string_lowercase returned
    main_pc,        \* main: where the main thread is
    main_todo,      \* main: the send_key calls execute_commands has yet to make
    key_pc,         \* X11Handler::send_key caller: between send and wake
    x11_pc,         \* x11_listener: where the thread is
    x11_events,     \* x11_listener: `events`, the tokens poll returned
    x11_cmds,       \* the X11Commands channel (my_sender -> receiver)
    x11_waker_ready, \* the Waker's readiness event is pending in the Poll
    x11_conn_ready, \* the connection's readable event is pending
    x11_unread,     \* the display events the connection holds unread
    x11_out,        \* the StateChanges sent while draining the connection
    dispatched,     \* every command send_key was called with, in call order
    delivered       \* every command send_keypress was called for, in order

decodeVars == <<data, event>>
fromVars == <<from_v, from_out>>
resolverVars == <<config, file, call>>
hidVars == <<dev_found, hid_pc, hid_events, ratchet_enabled, modifiers,
             had_rotation, hid_cmds, waker_ready, hidraw_ready, dev_in,
             fh_written, handler_pc, hid_event, hid_out, since_press,
             sent_rotation>>
routerVars == <<last_mode, last_modifiers, res, sent_cmds, executed>>
x11Vars == <<keys_down, sk_call, sk_before, injected>>
keyNameVars == <<kn_modifiers, kn_key, kn_out>>
bridgeVars == <<main_pc, main_todo, key_pc, x11_pc, x11_events, x11_cmds,
                x11_waker_ready, x11_conn_ready, x11_unread, x11_out,
                dispatched, delivered>>
vars == <<decodeVars, fromVars, resolverVars, hidVars, routerVars, x11Vars,
          keyNameVars, bridgeVars>>

None == <<>>
Some(x) == <<x>>

(***************************************************************************)
(* Integer helpers: u8 / i8 / i16 arithmetic as the casts perform it.      *)
(***************************************************************************)
Bytes == 0..255

RECURSIVE BitAnd(_, _)
BitAnd(a, b) ==
    IF a = 0 \/ b = 0 THEN 0
    ELSE (a % 2) * (b % 2) + 2 * BitAnd(a \div 2, b \div 2)

BitOr(a, b) == a + b - BitAnd(a, b)
BitAndNot(a, b) == a - BitAnd(a, b)

\* The cast without the `as i8` step: the u8 zero-extended to 16 bits.
AsI16ZeroExtended(b) == b

\* `b as i8 as i16`: the u8 bit pattern is read as two's complement (as i8),
\* the sign bit is copied into the upper byte (as i16), and the 16-bit
\* pattern is read as a signed value.
AsI8AsI16(b) ==
    LET wide == IF b >= 128 THEN 65280 + b ELSE b
    IN  IF wide >= 32768 THEN wide - 65536 ELSE wide

(***************************************************************************)
(* hid.rs: decode_event.  Frames are 1-indexed here, 0-indexed in Rust.    *)
(***************************************************************************)
IsCrownHeader(d) == d[1] = 17 /\ d[3] = 18 /\ d[4] = 0
ZeroPayload(d) == d[5] = 0 /\ d[6] = 0 /\ d[7] = 0

decode_event(d) ==
    IF Len(d) >= 11 /\ IsCrownHeader(d) /\ d[5] # 0
      THEN [kind |-> "Rotate", amount |-> AsI8AsI16(d[6]),
            pressed |-> (d[11] # 0), notch_amount |-> AsI8AsI16(d[7])]
    ELSE IF Len(d) >= 11 /\ IsCrownHeader(d) /\ ZeroPayload(d) /\ d[11] = 1
      THEN [kind |-> "Press"]
    ELSE IF Len(d) >= 11 /\ IsCrownHeader(d) /\ ZeroPayload(d) /\ d[11] = 5
      THEN [kind |-> "Release"]
    ELSE IF Len(d) >= 9 /\ IsCrownHeader(d) /\ ZeroPayload(d) /\ d[9] = 1
      THEN [kind |-> "Touch"]
    ELSE IF Len(d) >= 9 /\ IsCrownHeader(d) /\ ZeroPayload(d) /\ d[9] = 3
      THEN [kind |-> "Leave"]
    ELSE IF Len(d) >= 4 /\ d[1] = 32 /\ d[3] = 1
      THEN [kind |-> "KeyPress", modifiers |-> d[4]]
    ELSE IF Len(d) >= 2 /\ d[1] = 1
      THEN [kind |-> "KeyPress", modifiers |-> d[2]]
    ELSE IF Len(d) >= 3 /\ d[1] = 16 /\ d[3] = 65
      THEN [kind |-> "Connected"]
    ELSE [kind |-> "Unknown"]

(***************************************************************************)
(* hid.rs: HidHandler and hid_listener.                                    *)
(*                                                                         *)
(* The Poll holds two edge-triggered sources: the device node (Token(0))   *)
(* and the Waker (Token(10)).  A wake() or an arriving frame makes the     *)
(* source's event pending; poll() returns the pending events and clears    *)
(* them, so several wake() calls before one poll() give one event.         *)
(***************************************************************************)
RatchetOnFrame ==
    <<17, 3, 18, 33, 2, 2, 0, 0, 0, 0, 0, 0, 0, 0, 0, 0, 0, 0, 0, 0>>
RatchetOffFrame ==
    <<17, 3, 18, 42, 2, 1, 0, 0, 0, 0, 0, 0, 0, 0, 0, 0, 0, 0, 0, 0>>

\* The ratchet-on frame written whatever the flag.
switch_ratcher_always_on(enabled) == RatchetOnFrame

\* The frame switch_ratcher writes.
switch_ratcher(enabled) == IF enabled THEN RatchetOnFrame ELSE RatchetOffFrame

CrownTouched(m) == [msg |-> "CrownTouched", modifiers |-> m]
\* The touch-release reported as a click.
CrownReleasedAsClick(m) == [msg |-> "CrownClicked", modifiers |-> m]
CrownReleased(m) == [msg |-> "CrownReleased", modifiers |-> m]
\* The click message with no bitmask stamped on it.
CrownClickedUnstamped(m) == [msg |-> "CrownClicked", modifiers |-> 0]
CrownClicked(m) == [msg |-> "CrownClicked", modifiers |-> m]
CrownRotated(m, amount, notch_amount, pressed) ==
    [msg |-> "CrownRotated", modifiers |-> m, amount |-> amount,
     notch_amount |-> notch_amount, pressed |-> pressed]

\* The test with its first disjunct dropped: detent steps only.
SetsHadRotationDetentOnly(ev, ratchet) == ev.notch_amount # 0

\* `(!ratchet_enabled && amount != 0) || notch_amount != 0`
SetsHadRotation(ev, ratchet) ==
    (~ratchet /\ ev.amount # 0) \/ ev.notch_amount # 0

\* Every rotation with a nonzero amount forwarded, whatever the mode.
ForwardsRotationAnyAmount(ev, ratchet) == ev.amount # 0

\* `amount != 0 && (notch_amount != 0 || !ratchet_enabled)`
ForwardsRotation(ev, ratchet) ==
    ev.amount # 0 /\ (ev.notch_amount # 0 \/ ~ratchet)

\* HidHandler::enable_ratcher / disable_ratcher, first half: the send.  It
\* fails once the listener has returned and dropped the receiver.
SendCommand(command) ==
    /\ handler_pc = "idle"
    /\ IF hid_pc = "exited"
         THEN UNCHANGED <<hid_cmds, handler_pc>>
         ELSE /\ hid_cmds' = Append(hid_cmds, command)
              /\ handler_pc' = "wake"
    /\ UNCHANGED <<dev_found, hid_pc, hid_events, ratchet_enabled, modifiers,
                   had_rotation, waker_ready, hidraw_ready, dev_in,
                   fh_written, hid_event, hid_out, since_press,
                   sent_rotation>>

\* Second half: `let _ = self.waker.wake()`.
Wake ==
    /\ handler_pc = "wake"
    /\ handler_pc' = "idle"
    /\ waker_ready' = TRUE
    /\ UNCHANGED <<dev_found, hid_pc, hid_events, ratchet_enabled, modifiers,
                   had_rotation, hid_cmds, hidraw_ready, dev_in, fh_written,
                   hid_event, hid_out, since_press,
                   sent_rotation>>

\* The device delivers a frame to the opened node.
DeviceFrame(bound) ==
    /\ hid_pc \in {"poll", "events", "read"}
    /\ dev_in < bound
    /\ dev_in' = dev_in + 1
    /\ hidraw_ready' = TRUE
    /\ UNCHANGED <<dev_found, hid_pc, hid_events, ratchet_enabled, modifiers,
                   had_rotation, hid_cmds, waker_ready, fh_written,
                   handler_pc, hid_event, hid_out, since_press,
                   sent_rotation>>

\* The thread starts: device lookup, open, register, switch_ratcher(true);
\* or, with no device, the function returns and its receiver is dropped.
HidStart ==
    /\ hid_pc = "start"
    /\ IF dev_found
         THEN /\ hid_pc' = "poll"
              /\ fh_written' = Some(switch_ratcher(TRUE))
              /\ UNCHANGED hid_cmds
         ELSE /\ hid_pc' = "exited"
              /\ hid_cmds' = <<>>
              /\ UNCHANGED fh_written
    /\ UNCHANGED <<dev_found, hid_events, ratchet_enabled, modifiers,
                   had_rotation, waker_ready, hidraw_ready, dev_in,
                   handler_pc, hid_event, hid_out, since_press,
                   sent_rotation>>

\* `poll.poll(&mut events, None)` returns.
HidPoll ==
    /\ hid_pc = "poll"
    /\ waker_ready \/ hidraw_ready
    /\ hid_events' = (IF waker_ready THEN {"waker"} ELSE {}) \cup
                     (IF hidraw_ready THEN {"hidraw"} ELSE {})
    /\ waker_ready' = FALSE
    /\ hidraw_ready' = FALSE
    /\ hid_pc' = "events"
    /\ UNCHANGED <<dev_found, ratchet_enabled, modifiers, had_rotation,
                   hid_cmds, dev_in, fh_written, handler_pc, hid_event,
                   hid_out, since_press,
                   sent_rotation>>

\* The position after one event of `for event in &events` is done.
AfterEvent(rest) == IF rest = {} THEN "poll" ELSE "events"

\* `event.token() != hidraw_token`: one `receiver.try_recv()`, and the
\* command it returned, if any, applied.
HidWakerEvent ==
    /\ hid_pc = "events"
    /\ "waker" \in hid_events
    /\ IF hid_cmds = <<>>
         THEN UNCHANGED <<hid_cmds, ratchet_enabled, fh_written>>
         ELSE /\ hid_cmds' = Tail(hid_cmds)
              /\ ratchet_enabled' = (Head(hid_cmds) = "EnableRatchet")
              /\ fh_written' =
                    Some(switch_ratcher(Head(hid_cmds) = "EnableRatchet"))
    /\ hid_events' = hid_events \ {"waker"}
    /\ hid_pc' = AfterEvent(hid_events')
    /\ UNCHANGED <<dev_found, modifiers, had_rotation, waker_ready,
                   hidraw_ready, dev_in, handler_pc, hid_event, hid_out,
                   since_press,
                   sent_rotation>>

\* The device-node event: enter `while let Ok(size) = fh.read(..)`.
HidRawEvent ==
    /\ hid_pc = "events"
    /\ "hidraw" \in hid_events
    /\ hid_pc' = "read"
    /\ UNCHANGED <<dev_found, hid_events, ratchet_enabled, modifiers,
                   had_rotation, hid_cmds, waker_ready, hidraw_ready, dev_in,
                   fh_written, handler_pc, hid_event, hid_out, since_press,
                   sent_rotation>>

\* The read fails with WouldBlock: the while loop ends.
HidReadWouldBlock ==
    /\ hid_pc = "read"
    /\ dev_in = 0
    /\ hid_events' = hid_events \ {"hidraw"}
    /\ hid_pc' = AfterEvent(hid_events')
    /\ UNCHANGED <<dev_found, ratchet_enabled, modifiers, had_rotation,
                   hid_cmds, waker_ready, hidraw_ready, dev_in, fh_written,
                   handler_pc, hid_event, hid_out, since_press,
                   sent_rotation>>

\* What has followed the last Pressed frame: "norot" no Rotated frame,
\* "sig" at least one significant Rotated frame, "insig" only
\* insignificant ones; "none" before any Pressed frame.  Significant: the
\* ratchet mode is Free and the raw amount is not 0, or the detent amount
\* is not 0.
SincePress(prev, ev, ratchet) ==
    IF ev.kind = "Press" THEN "norot"
    ELSE IF ev.kind = "Rotate" /\ prev # "none" THEN
        IF (~ratchet /\ ev.amount # 0) \/ ev.notch_amount # 0 THEN "sig"
        ELSE IF prev = "sig" THEN "sig" ELSE "insig"
    ELSE prev

\* One iteration of the while loop: a frame is read, decoded and handled.
HidRead(frame) ==
    /\ hid_pc = "read"
    /\ dev_in > 0
    /\ dev_in' = dev_in - 1
    /\ LET ev == decode_event(frame)
       IN  /\ hid_event' = Some(ev)
           /\ since_press' = SincePress(since_press, ev, ratchet_enabled)
           /\ sent_rotation' =
                IF ev.kind = "Press" THEN FALSE
                ELSE IF ev.kind = "Rotate" /\ ForwardsRotation(ev, ratchet_enabled)
                    THEN TRUE
                ELSE sent_rotation
           /\ fh_written' = IF ev.kind = "Connected"
                              THEN Some(switch_ratcher(ratchet_enabled))
                              ELSE fh_written
           /\ modifiers' = IF ev.kind = "KeyPress" THEN ev.modifiers
                           ELSE modifiers
           /\ had_rotation' =
                IF ev.kind = "Press" THEN FALSE
                ELSE IF ev.kind = "Rotate" /\ SetsHadRotation(ev, ratchet_enabled)
                    THEN TRUE
                ELSE had_rotation
           /\ hid_out' =
                IF ev.kind = "Touch" THEN <<CrownTouched(modifiers)>>
                ELSE IF ev.kind = "Leave" THEN <<CrownReleased(modifiers)>>
                ELSE IF ev.kind = "Release" /\ ~had_rotation
                    THEN <<CrownClicked(modifiers)>>
                ELSE IF ev.kind = "Rotate" /\ ForwardsRotation(ev, ratchet_enabled)
                    THEN <<CrownRotated(modifiers, ev.amount, ev.notch_amount,
                                        ev.pressed)>>
                ELSE <<>>
    /\ UNCHANGED <<dev_found, hid_pc, hid_events, ratchet_enabled, hid_cmds,
                   waker_ready, hidraw_ready, handler_pc>>

(***************************************************************************)
(* config.rs: impl From<u8> for Modifier.                                  *)
(***************************************************************************)
Modifiers == {"None", "Shift", "Alt", "Ctrl"}

\* The same tests with the Shift group tried before the Alt group.
ModifierFromShiftFirst(b) ==
    IF BitAnd(b, 34) # 0 THEN "Shift"
    ELSE IF BitAnd(b, 68) # 0 THEN "Alt"
    ELSE IF BitAnd(b, 17) # 0 THEN "Ctrl"
    ELSE "None"

ModifierFrom(b) ==
    IF BitAnd(b, 68) # 0 THEN "Alt"
    ELSE IF BitAnd(b, 34) # 0 THEN "Shift"
    ELSE IF BitAnd(b, 17) # 0 THEN "Ctrl"
    ELSE "None"

(***************************************************************************)
(* config.rs: the data model.                                              *)
(*                                                                         *)
(* An application identifier is the sequence of its "/"-separated          *)
(* segments: "/usr/bin/foo" is <<"", "usr", "bin", "foo">>, "foo" is       *)
(* <<"foo">> and the empty string is <<"">>.  A command line is the        *)
(* sequence of its characters.                                             *)
(***************************************************************************)
RatchetModes == {"Free", "Ratcheted"}
Actions == {"Touch", "Release", "Left", "LeftPressed", "Right",
            "RightPressed", "Click"}

KeyPress(keysym, mods) ==
    [op |-> "KeyPress", keysym |-> keysym, modifiers |-> mods, command |-> <<>>]
Execute(command) ==
    [op |-> "Execute", keysym |-> 0, modifiers |-> 0, command |-> command]

\* A ButtonMapping with every #[serde(default)] field at its default.
DefaultButtonMapping ==
    [mode |-> None, touch |-> <<>>, release |-> <<>>, click |-> <<>>,
     left |-> <<>>, right |-> <<>>, left_pressed |-> <<>>,
     right_pressed |-> <<>>]

FooUsr == <<"", "usr", "bin", "foo">>
FooOpt == <<"", "opt", "other", "foo">>
Foo == <<"foo">>
GlobalKey == <<"global">>
NoProgram == <<"">>

EchoHi == <<"e", "c", "h", "o", " ", "h", "i">>
Blank == <<" ", " ">>
XdgOpen == <<" ", "x", "\t", "-", "v", " ">>

\* "/usr/bin/foo": A, "global": G  (the layout of the spec's example)
AppA ==
    [mode |-> "Free",
     mapping |->
        ("None" :> [DefaultButtonMapping EXCEPT
                        !.click = <<KeyPress(97, 0)>>,
                        !.right = <<KeyPress(98, 4), Execute(EchoHi)>>]) @@
        ("Shift" :> [DefaultButtonMapping EXCEPT
                        !.mode = Some("Ratcheted"),
                        !.touch = <<Execute(XdgOpen), KeyPress(99, 1)>>])]
GlobalG ==
    [mode |-> "Ratcheted",
     mapping |->
        ("None" :> [DefaultButtonMapping EXCEPT
                        !.click = <<KeyPress(100, 0)>>,
                        !.left = <<KeyPress(101, 0)>>,
                        !.left_pressed = <<KeyPress(102, 8)>>]) @@
        ("Shift" :> [DefaultButtonMapping EXCEPT
                        !.release = <<Execute(Blank), KeyPress(103, 0)>>]) @@
        ("Alt" :> [DefaultButtonMapping EXCEPT
                        !.mode = Some("Free"),
                        !.right_pressed = <<Execute(<<>>), Execute(EchoHi)>>])]
ConfigFullPath == (FooUsr :> AppA) @@ (GlobalKey :> GlobalG)

\* "foo": B, "/usr/bin/foo": A, no global
AppB ==
    [mode |-> "Ratcheted",
     mapping |->
        ("Ctrl" :> [DefaultButtonMapping EXCEPT
                        !.mode = Some("Free"),
                        !.click = <<KeyPress(104, 4)>>]) @@
        ("None" :> DefaultButtonMapping)]
ConfigBaseName == (Foo :> AppB) @@ (FooUsr :> AppA)

\* "global": {mode: Free, mapping: {None: {click: [Execute("echo hi")]}}}
GlobalEcho ==
    [mode |-> "Free",
     mapping |-> ("None" :> [DefaultButtonMapping EXCEPT
                                !.click = <<Execute(EchoHi)>>])]
ConfigEcho == (GlobalKey :> GlobalEcho)

\* What the file can hold: a document that is a well-formed Config, or one
\* that is not (broken YAML, an unknown field value, an unknown keysym).
Document(app) == [well_formed |-> TRUE, app |-> app]
Malformed == [well_formed |-> FALSE, app |-> <<>>]
Documents == {Document(ConfigFullPath), Document(ConfigBaseName),
              Document(ConfigEcho), Malformed}

\* serde_yaml::from_reader::<_, Config>(&config_file): Ok(config) or Err.
from_reader(document) ==
    IF document.well_formed THEN Some(document.app) ELSE None

(***************************************************************************)
(* config.rs: deserialize_string_lowercase.  A string is the sequence of   *)
(* its characters.                                                         *)
(***************************************************************************)
UpperToLower ==
    ("A" :> "a") @@ ("B" :> "b") @@ ("C" :> "c") @@ ("D" :> "d") @@
    ("E" :> "e") @@ ("F" :> "f") @@ ("G" :> "g") @@ ("H" :> "h") @@
    ("I" :> "i") @@ ("J" :> "j") @@ ("K" :> "k") @@ ("L" :> "l") @@
    ("M" :> "m") @@ ("N" :> "n") @@ ("O" :> "o") @@ ("P" :> "p") @@
    ("Q" :> "q") @@ ("R" :> "r") @@ ("S" :> "s") @@ ("T" :> "t") @@
    ("U" :> "u") @@ ("V" :> "v") @@ ("W" :> "w") @@ ("X" :> "x") @@
    ("Y" :> "y") @@ ("Z" :> "z")

\* str::to_lowercase on the characters used here.
to_lowercase(str) ==
    [i \in 1..Len(str) |->
        IF str[i] \in DOMAIN UpperToLower THEN UpperToLower[str[i]] ELSE str[i]]

\* s.rsplit('+'), collected: the parts from the last to the first; `cur`
\* is the part being read from the right.
RECURSIVE RSplitFrom(_, _)
RSplitFrom(str, cur) ==
    IF str = <<>> THEN <<cur>>
    ELSE LET c == str[Len(str)]
             front == SubSeq(str, 1, Len(str) - 1)
         IN  IF c = "+" THEN <<cur>> \o RSplitFrom(front, <<>>)
             ELSE RSplitFrom(front, <<c>> \o cur)

rsplit_plus(str) == RSplitFrom(str, <<>>)

\* crate::keysyms::KEYSYMS, the entries used here (XK_a, XK_F1).
KEYSYMS == (<<"a">> :> 97) @@ (<<"f", "1">> :> 65470)

Ok(v) == [ok |-> TRUE, keysym |-> v[1], modifiers |-> v[2]]
Err == [ok |-> FALSE, keysym |-> 0, modifiers |-> 0]

\* One arm of `match modifier`: the bit OR-ed in, 0 for `_ => {}`.
ModifierBit(name) ==
    IF name = <<"s", "h", "i", "f", "t">> THEN 1
    ELSE IF name = <<"a", "l", "t">> THEN 8
    ELSE IF name = <<"c", "t", "r", "l">> THEN 4
    ELSE 0

\* `for modifier in iter { ... }`
RECURSIVE FoldModifiers(_, _)
FoldModifiers(names, acc) ==
    IF names = <<>> THEN acc
    ELSE FoldModifiers(Tail(names), BitOr(acc, ModifierBit(Head(names))))

deserialize_string_lowercase(str) ==
    LET parts == rsplit_plus(to_lowercase(str))
        key == Head(parts)
    IN  IF key \notin DOMAIN KEYSYMS THEN Err
        ELSE Ok(<<KEYSYMS[key], FoldModifiers(Tail(parts), 0)>>)

\* The key name as the file holds it: the parts joined by `+`.
RECURSIVE JoinPlus(_)
JoinPlus(parts) ==
    IF Len(parts) = 1 THEN parts[1]
    ELSE parts[1] \o <<"+">> \o JoinPlus(Tail(parts))

Deserialize ==
    /\ kn_out = None
    /\ kn_out' = Some(deserialize_string_lowercase(
                        JoinPlus(kn_modifiers \o <<kn_key>>)))
    /\ UNCHANGED <<kn_modifiers, kn_key>>

KeyNameIdle == kn_modifiers = <<>> /\ kn_key = <<>> /\ kn_out = None

(***************************************************************************)
(* config.rs: ConfigFile.                                                  *)
(*                                                                         *)
(* An Rc<AppMapping> is [alloc, key, val]: the load that allocated it, the *)
(* key it was stored under and its content; two Rc are the same reference  *)
(* iff they agree on alloc and key.  `loads` counts the successful parses  *)
(* and stands for the allocator.  A SystemTime is <<"file", n>> for the    *)
(* n-th modification time of the file and <<"now">> for a clock reading;   *)
(* last_mtime_check is "Expired" when more than one second has passed      *)
(* since the Instant it holds.                                             *)
(***************************************************************************)
Rc(conf, key) == [alloc |-> conf.alloc, key |-> key, val |-> conf.app[key]]

\* conf.app.get(key).map_or(None, |v| Some(v.clone()))
GetClone(conf, key) ==
    IF key \in DOMAIN conf.app THEN Some(Rc(conf, key)) ELSE None

\* app.rsplit("/").next()
LastSegment(app) == <<app[Len(app)]>>

update_app_config_exact_only(cf) ==
    IF cf.config = None \/ cf.active_app = None THEN cf
    ELSE [cf EXCEPT !.active_conf = GetClone(cf.config[1], cf.active_app[1])]

\* The same lookups, the view left as it was when both miss.
update_app_config_keep_on_miss(cf) ==
    IF cf.config = None \/ cf.active_app = None THEN cf
    ELSE LET conf == cf.config[1]
             app == cf.active_app[1]
             exact == GetClone(conf, app)
             base == GetClone(conf, LastSegment(app))
         IN  IF exact # None THEN [cf EXCEPT !.active_conf = exact]
             ELSE IF base # None THEN [cf EXCEPT !.active_conf = base]
             ELSE cf

update_app_config(cf) ==
    IF cf.config = None \/ cf.active_app = None THEN cf
    ELSE LET conf == cf.config[1]
             app == cf.active_app[1]
             exact == GetClone(conf, app)
         IN  [cf EXCEPT !.active_conf =
                 IF exact # None THEN exact
                 ELSE GetClone(conf, LastSegment(app))]

\* metadata(path).map_or_else(now, |meta| meta.modified().unwrap_or_else(now))
Metadata(fs) == IF fs.exists THEN <<"file", fs.mtime>> ELSE <<"now">>

\* `mtime != self.mtime`: two clock readings are never equal.
MtimeChanged(cf, fs) == ~fs.exists \/ Metadata(fs) # cf.mtime

\* File::open(path).is_ok()
CanOpen(fs) == fs.exists

\* The body of `if mtime != self.mtime { ... }`.
Reload(cf, fs) ==
    LET parsed == from_reader(fs.content)
        loaded ==
            IF ~CanOpen(fs) THEN cf
            ELSE IF parsed # None THEN
                LET conf == [alloc |-> cf.loads + 1, app |-> parsed[1]]
                IN  update_app_config(
                        [cf EXCEPT !.global_conf = GetClone(conf, GlobalKey),
                                   !.config = Some(conf),
                                   !.loads = cf.loads + 1])
            ELSE [cf EXCEPT !.config = None, !.global_conf = None,
                            !.active_conf = None]
    IN  [loaded EXCEPT !.mtime = Metadata(fs)]

ReloadAlways(cf, fs) ==
    [Reload(cf, fs) EXCEPT !.last_mtime_check = "Recent"]

maybe_load_config(cf, fs) ==
    IF cf.path = None THEN cf
    ELSE IF cf.last_mtime_check # "Expired" THEN cf
    ELSE [(IF MtimeChanged(cf, fs) THEN Reload(cf, fs) ELSE cf)
            EXCEPT !.last_mtime_check = "Recent"]

select_app(cf, fs, app) ==
    update_app_config(
        maybe_load_config([cf EXCEPT !.active_app = Some(app)], fs))

\* Option combinators.
AndThen(o, F(_)) == IF o = None THEN None ELSE F(o[1])
OrElse(o, alt) == IF o # None THEN o ELSE alt

get_actions_from_mapping_keep_empty(mapping, action) ==
    Some(CASE action = "Touch" -> mapping.touch
           [] action = "Release" -> mapping.release
           [] action = "Left" -> mapping.left
           [] action = "LeftPressed" -> mapping.left_pressed
           [] action = "Right" -> mapping.right
           [] action = "RightPressed" -> mapping.right_pressed
           [] action = "Click" -> mapping.click)

get_actions_from_mapping(mapping, action) ==
    LET actions == CASE action = "Touch" -> mapping.touch
                     [] action = "Release" -> mapping.release
                     [] action = "Left" -> mapping.left
                     [] action = "LeftPressed" -> mapping.left_pressed
                     [] action = "Right" -> mapping.right
                     [] action = "RightPressed" -> mapping.right_pressed
                     [] action = "Click" -> mapping.click
    IN  IF actions = <<>> THEN None ELSE Some(actions)

\* v.mapping.get(&modifiers)
MappingGet(rc, mods) ==
    IF mods \in DOMAIN rc.val.mapping
    THEN Some(rc.val.mapping[mods]) ELSE None

\* The lookup of get_actions_for_modifiers, after its maybe_load_config.
actions_lookup(cf, mods, action) ==
    LET InView(rc) ==
            LET FromMapping(v2) == get_actions_from_mapping(v2, action)
            IN  AndThen(MappingGet(rc, mods), FromMapping)
    IN  OrElse(AndThen(cf.active_conf, InView),
               AndThen(cf.global_conf, InView))

ratchet_lookup_app_mode_only(cf, mods) ==
    LET InView(rc) ==
            LET Mode(v2) == Some(rc.val.mode)
            IN  AndThen(MappingGet(rc, mods), Mode)
        found == OrElse(AndThen(cf.active_conf, InView),
                        AndThen(cf.global_conf, InView))
    IN  IF found = None THEN "Ratcheted" ELSE found[1]

\* The lookup of ratchet_mode_for_modifier, after its maybe_load_config.
ratchet_lookup(cf, mods) ==
    LET InView(rc) ==
            LET Mode(v2) == OrElse(v2.mode, Some(rc.val.mode))
            IN  AndThen(MappingGet(rc, mods), Mode)
        found == OrElse(AndThen(cf.active_conf, InView),
                        AndThen(cf.global_conf, InView))
    IN  IF found = None THEN "Ratcheted" ELSE found[1]

\* ConfigFile::new(): the struct literal, then maybe_load_config.
NewConfigFile(path, fs) ==
    maybe_load_config(
        [config |-> None, path |-> path, mtime |-> <<"now">>,
         last_mtime_check |-> "Expired", active_app |-> None,
         global_conf |-> None, active_conf |-> None, loads |-> 0], fs)

(***************************************************************************)
(* main.rs: execute_commands and the Router loop.                          *)
(***************************************************************************)
\* u8::is_ascii_whitespace: space, tab, line feed, form feed, return.
IsAsciiWhitespace(c) == c \in {" ", "\t", "\n", "\f", "\r"}

\* command.split_ascii_whitespace(), collected: `cur` is the word being
\* read and `acc` the words already complete.
RECURSIVE SplitFrom(_, _, _)
SplitFrom(s, cur, acc) ==
    LET done == IF cur = <<>> THEN acc ELSE Append(acc, cur)
    IN  IF s = <<>> THEN done
        ELSE IF IsAsciiWhitespace(Head(s)) THEN SplitFrom(Tail(s), <<>>, done)
        ELSE SplitFrom(Tail(s), Append(cur, Head(s)), acc)

split_ascii_whitespace(command) == SplitFrom(command, <<>>, <<>>)

\* The programs Command::spawn finds; any other launch fails.
Installed == { <<"e", "c", "h", "o">> }

SendKey(keysym, mods) ==
    [eff |-> "SendKey", keysym |-> keysym, modifiers |-> mods,
     cmd |-> <<>>, args |-> <<>>, ok |-> TRUE]
Spawn(cmd, args) ==
    [eff |-> "Spawn", keysym |-> 0, modifiers |-> 0,
     cmd |-> cmd, args |-> args, ok |-> cmd \in Installed]

\* One iteration of the loop of execute_commands.
ExecuteOne(command) ==
    IF command.op = "KeyPress"
        THEN <<SendKey(command.keysym, command.modifiers)>>
    ELSE LET parts == split_ascii_whitespace(command.command)
         IN  IF parts = <<>> THEN <<>>
             ELSE <<Spawn(Head(parts), Tail(parts))>>

\* The loop ended by the first launch that fails.
RECURSIVE execute_commands_until_failure(_)
execute_commands_until_failure(commands) ==
    IF commands = <<>> THEN <<>>
    ELSE LET first == ExecuteOne(Head(commands))
         IN  IF first # <<>> /\ ~first[1].ok THEN first
             ELSE first \o execute_commands_until_failure(Tail(commands))

RECURSIVE execute_commands(_)
execute_commands(commands) ==
    IF commands = <<>> THEN <<>>
    ELSE ExecuteOne(Head(commands)) \o execute_commands(Tail(commands))

\* The ratchet switched on whatever the mode.
CommandForEnableOnly(mode) == "EnableRatchet"

\* `match mode { Ratcheted => enable_ratcher(), _ => disable_ratcher() }`
CommandFor(mode) ==
    IF mode = "Ratcheted" THEN "EnableRatchet" ELSE "DisableRatchet"

\* The Action of a CrownRotated message, None for `_ => continue`.
RotateAction(amount, pressed) ==
    IF pressed /\ amount > 0 THEN Some("RightPressed")
    ELSE IF pressed /\ amount < 0 THEN Some("LeftPressed")
    ELSE IF amount > 0 THEN Some("Right")
    ELSE IF amount < 0 THEN Some("Left")
    ELSE None

\* No rotation discarded for its detent amount.
DiscardsNoRotation(mode, notch_amount) == FALSE

\* `if last_mode == RatchetMode::Ratcheted && notch_amount == 0 { continue; }`
DiscardsRotation(mode, notch_amount) ==
    mode = "Ratcheted" /\ notch_amount = 0

FocusChanged(program) ==
    [msg |-> "FocusChanged", program |-> program, modifiers |-> 0,
     amount |-> 0, notch_amount |-> 0, pressed |-> FALSE]
ModifiersChanged(m) ==
    [msg |-> "ModifiersChanged", program |-> <<>>, modifiers |-> m,
     amount |-> 0, notch_amount |-> 0, pressed |-> FALSE]
Gesture(msg, m, amount, notch_amount, pressed) ==
    [msg |-> msg, program |-> <<>>, modifiers |-> m,
     amount |-> amount, notch_amount |-> notch_amount, pressed |-> pressed]

\* The re-resolution sending the command for the mode whether or not the
\* mode changed.
ReresolveAlwaysSends(cf, m) ==
    LET mode == ratchet_lookup(cf, m)
    IN  /\ config' = cf
        /\ last_mode' = mode
        /\ sent_cmds' = <<CommandFor(mode)>>
        /\ executed' = <<>>

\* The re-resolution both FocusChanged and ModifiersChanged end with, on the
\* ConfigFile `cf` as maybe_load_config left it.
Reresolve(cf, m) ==
    LET mode == ratchet_lookup(cf, m)
    IN  /\ config' = cf
        /\ last_mode' = mode
        /\ sent_cmds' = IF mode # last_mode THEN <<CommandFor(mode)>> ELSE <<>>
        /\ executed' = <<>>

\* Nothing but the receive: `continue`, or a guard that does not hold.
NoEffect ==
    /\ sent_cmds' = <<>>
    /\ executed' = <<>>
    /\ UNCHANGED <<config, last_mode, last_modifiers>>

\* The lookup and execution the four gesture arms end with.
Dispatch(m, action) ==
    LET cf == maybe_load_config(config, file)
        actions == actions_lookup(cf, m, action)
    IN  /\ config' = cf
        /\ sent_cmds' = <<>>
        /\ executed' = IF actions = None THEN <<>>
                       ELSE execute_commands(actions[1])
        /\ UNCHANGED <<last_mode, last_modifiers>>

\* One turn of the Router loop on message `r`.  `elapsed`: more than a
\* second passes between select_app and ratchet_mode_for_modifier.
RouterHandle(r, elapsed) ==
    /\ res' = Some(r)
    /\ CASE r.msg = "FocusChanged" ->
              LET selected == select_app(config, file, r.program)
                  later == IF elapsed
                           THEN [selected EXCEPT !.last_mtime_check = "Expired"]
                           ELSE selected
              IN  /\ Reresolve(maybe_load_config(later, file), last_modifiers)
                  /\ UNCHANGED last_modifiers
         [] r.msg = "ModifiersChanged" ->
              LET m == ModifierFrom(r.modifiers)
              IN  IF last_modifiers # m
                    THEN /\ last_modifiers' = m
                         /\ Reresolve(maybe_load_config(config, file), m)
                    ELSE NoEffect
         [] r.msg = "CrownRotated" ->
              LET action == RotateAction(r.amount, r.pressed)
              IN  IF action = None THEN NoEffect
                  ELSE IF DiscardsRotation(last_mode, r.notch_amount)
                    THEN NoEffect
                  ELSE Dispatch(ModifierFrom(r.modifiers), action[1])
         [] r.msg = "CrownTouched" ->
              Dispatch(ModifierFrom(r.modifiers), "Touch")
         [] r.msg = "CrownReleased" ->
              Dispatch(ModifierFrom(r.modifiers), "Release")
         [] r.msg = "CrownClicked" ->
              Dispatch(ModifierFrom(r.modifiers), "Click")

RouterInit ==
    /\ last_mode = "Ratcheted"
    /\ last_modifiers = "None"
    /\ res = None
    /\ sent_cmds = <<>>
    /\ executed = <<>>

(***************************************************************************)
(* x11.rs: send_keypress.                                                  *)
(*                                                                         *)
(* keycodes_of_mods is the table keysym_to_keycode_mapping builds: one     *)
(* (keycode, modifier bit) pair per key of the modifier mapping.  An       *)
(* injected event is [action, keycode]; the display server puts the key    *)
(* down on a press and up on a release.  The target key is an ordinary     *)
(* key, none of the modifier keys.                                         *)
(***************************************************************************)
KEY_PRESS_EVENT == "KeyPress"
KEY_RELEASE_EVENT == "KeyRelease"

\* Shift (1 << 0) with two keys, Control (1 << 2) and Mod1 (1 << 3) with
\* one key each; Lock (1 << 1) has no key.
KeycodesOfMods ==
    << [keycode |-> 1, modifier |-> 1], [keycode |-> 2, modifier |-> 1],
       [keycode |-> 3, modifier |-> 4], [keycode |-> 4, modifier |-> 8] >>
ModKeycodes == { KeycodesOfMods[i].keycode : i \in DOMAIN KeycodesOfMods }
TargetKeycode == 9

FakeInput(action, keycode) == [action |-> action, keycode |-> keycode]

\* The held key whose modifier is not requested queued for a release.
RestoreHeldByRelease(entry, mods) ==
    IF BitAnd(entry.modifier, mods) = 0
    THEN <<FakeInput(KEY_RELEASE_EVENT, entry.keycode)>> ELSE <<>>

\* `if *modifier & modifiers == 0 { to_restore.push((*mod_keycode, KEY_PRESS_EVENT)); }`
RestoreHeld(entry, mods) ==
    IF BitAnd(entry.modifier, mods) = 0
    THEN <<FakeInput(KEY_PRESS_EVENT, entry.keycode)>> ELSE <<>>

\* The first loop over keycodes_of_mods, from entry i on: the restore
\* entries queued and the modifiers found pressed.
RECURSIVE ScanHeld(_, _, _, _)
ScanHeld(table, i, keys, mods) ==
    IF i > Len(table)
    THEN [to_restore |-> <<>>, pressed_modifiers |-> 0]
    ELSE LET rest == ScanHeld(table, i + 1, keys, mods)
         IN  IF table[i].keycode \in keys
             THEN [to_restore |-> RestoreHeld(table[i], mods) \o rest.to_restore,
                   pressed_modifiers |->
                       BitOr(table[i].modifier, rest.pressed_modifiers)]
             ELSE rest

\* The second loop, from entry i on with `to_press` still to press: the
\* presses injected, each with its release queued.
RECURSIVE PressMissing(_, _, _)
PressMissing(table, i, to_press) ==
    IF i > Len(table) THEN <<>>
    ELSE IF BitAnd(table[i].modifier, to_press) # 0
        THEN <<table[i].keycode>> \o
             PressMissing(table, i + 1, BitAndNot(to_press, table[i].modifier))
    ELSE PressMissing(table, i + 1, to_press)

Presses(keycodes) ==
    [i \in 1..Len(keycodes) |-> FakeInput(KEY_PRESS_EVENT, keycodes[i])]
Releases(keycodes) ==
    [i \in 1..Len(keycodes) |-> FakeInput(KEY_RELEASE_EVENT, keycodes[i])]

\* The target released only after the restore sequence.
InjectRestoreFirst(presses, keycode, mods_to_restore) ==
    presses \o <<FakeInput(KEY_PRESS_EVENT, keycode)>> \o mods_to_restore
        \o <<FakeInput(KEY_RELEASE_EVENT, keycode)>>

\* The events in the order send_keypress injects them.
Inject(presses, keycode, mods_to_restore) ==
    presses \o <<FakeInput(KEY_PRESS_EVENT, keycode),
                 FakeInput(KEY_RELEASE_EVENT, keycode)>> \o mods_to_restore

\* send_keypress: the events injected when the keymap is `keys`;
\* `query_ok` is whether query_keymap and its reply succeeded.
send_keypress(keys, keycode, mods, table, query_ok) ==
    IF ~query_ok THEN Inject(<<>>, keycode, <<>>)
    ELSE LET scan == ScanHeld(table, 1, keys, mods)
             pressed == PressMissing(table, 1,
                            BitAndNot(mods, scan.pressed_modifiers))
         IN  Inject(Presses(pressed), keycode,
                    scan.to_restore \o Releases(pressed))

\* The display server's keymap after the events.
RECURSIVE KeymapAfter(_, _)
KeymapAfter(keys, events) ==
    IF events = <<>> THEN keys
    ELSE KeymapAfter(
            IF Head(events).action = KEY_PRESS_EVENT
            THEN keys \cup {Head(events).keycode}
            ELSE keys \ {Head(events).keycode},
            Tail(events))

\* One call of send_keypress.
SendKeypress(keycode, mods, query_ok) ==
    LET events == send_keypress(keys_down, keycode, mods,
                                KeycodesOfMods, query_ok)
    IN  /\ sk_call' = Some([modifiers |-> mods, query_ok |-> query_ok])
        /\ sk_before' = keys_down
        /\ injected' = events
        /\ keys_down' = KeymapAfter(keys_down, events)

\* The user presses or releases a modifier key between two calls.
UserKey(k) ==
    /\ keys_down' = IF k \in keys_down THEN keys_down \ {k}
                    ELSE keys_down \cup {k}
    /\ UNCHANGED <<sk_call, sk_before, injected>>

X11Idle ==
    /\ keys_down = {}
    /\ sk_call = None
    /\ sk_before = {}
    /\ injected = <<>>

(***************************************************************************)
(* main.rs: start-up; x11.rs: X11Handler::new, X11Handler::send_key and    *)
(* x11_listener.                                                           *)
(*                                                                         *)
(* main creates the handler (Poll, Waker, channel, spawned thread) and     *)
(* enters its loop.  The spawned thread connects to the display server,    *)
(* reads the keyboard mapping and then loops on poll.  A display event     *)
(* carries what the get_property calls and read_link return for it.        *)
(***************************************************************************)
\* A panic in a spawned thread ends that thread when panics unwind and the
\* whole process when they abort.
PanicStrategies == {"unwind", "abort"}

\* `mapping`: keysym -> (keycode, index in the keycode's keysym list), here
\* a keyboard whose one ordinary key carries `a` and `A`.
Mapping ==
    (97 :> [keycode |-> TargetKeycode, idx |-> 0]) @@
    (65 :> [keycode |-> TargetKeycode, idx |-> 1])

\* An event read from the connection: `atom` of the PropertyNotify (or
\* another event), and the window, pid and executable the queries give.
PropertyNotify(atom, win, pid, exe) ==
    [atom |-> atom, win |-> win, pid |-> pid, exe |-> exe]

\* What one pass of the inner loop sends for the event it read.
FocusOf(ev) ==
    IF ev.atom # "_NET_ACTIVE_WINDOW" THEN <<>>
    ELSE IF ev.win = None THEN <<>>
    ELSE IF ev.pid = None THEN <<FocusChanged(NoProgram)>>
    ELSE IF ev.exe = None THEN <<FocusChanged(NoProgram)>>
    ELSE <<FocusChanged(ev.exe[1])>>

RECURSIVE DrainEvents(_)
DrainEvents(unread) ==
    IF unread = <<>> THEN <<>>
    ELSE FocusOf(Head(unread)) \o DrainEvents(Tail(unread))

\* `X11Handler::new(..).unwrap()` and the entry into `loop`: with the Poll
\* and the Waker created the thread is spawned, otherwise main panics.
MainStart(new_ok) ==
    /\ main_pc = "new"
    /\ IF new_ok
         THEN /\ main_pc' = "loop"
              /\ x11_pc' = "start"
         ELSE /\ main_pc' = "terminated"
              /\ UNCHANGED x11_pc
    /\ UNCHANGED <<main_todo, key_pc, x11_events, x11_cmds, x11_waker_ready,
                   x11_conn_ready, x11_unread, x11_out, dispatched,
                   delivered>>

\* The thread's first statements: `RustConnection::connect(None).unwrap()`
\* and the set-up after it.  The panic of a failed connect drops the
\* receiver and the Poll.
X11Start(connect_ok, strategy) ==
    /\ main_pc = "loop"
    /\ x11_pc = "start"
    /\ IF connect_ok
         THEN /\ x11_pc' = "poll"
              /\ UNCHANGED <<main_pc, x11_cmds>>
         ELSE /\ x11_pc' = "panicked"
              /\ x11_cmds' = <<>>
              /\ main_pc' = IF strategy = "abort" THEN "terminated"
                            ELSE main_pc
    /\ UNCHANGED <<main_todo, key_pc, x11_events, x11_waker_ready,
                   x11_conn_ready, x11_unread, x11_out, dispatched,
                   delivered>>

\* The Router takes a message off its channel and execute_commands starts
\* on the list resolved for it.
RouterExecutes(commands) ==
    /\ main_pc = "loop"
    /\ main_todo = <<>>
    /\ key_pc = "idle"
    /\ main_todo' = execute_commands(commands)
    /\ UNCHANGED <<main_pc, key_pc, x11_pc, x11_events, x11_cmds,
                   x11_waker_ready, x11_conn_ready, x11_unread, x11_out,
                   dispatched, delivered>>

\* send_key, first half: `self.my_sender.send(..)`.  It fails once the
\* receiver is dropped, and then no wake follows.
X11Send ==
    /\ main_pc = "loop"
    /\ main_todo # <<>>
    /\ key_pc = "idle"
    /\ main_todo' = Tail(main_todo)
    /\ dispatched' = Append(dispatched, Head(main_todo))
    /\ IF x11_pc = "panicked"
         THEN UNCHANGED <<x11_cmds, key_pc>>
         ELSE /\ x11_cmds' = Append(x11_cmds, Head(main_todo))
              /\ key_pc' = "wake"
    /\ UNCHANGED <<main_pc, x11_pc, x11_events, x11_waker_ready,
                   x11_conn_ready, x11_unread, x11_out, delivered>>

\* send_key, second half: `let _ = self.waker.wake()`.
X11Wake ==
    /\ main_pc = "loop"
    /\ key_pc = "wake"
    /\ key_pc' = "idle"
    /\ x11_waker_ready' = TRUE
    /\ UNCHANGED <<main_pc, main_todo, x11_pc, x11_events, x11_cmds,
                   x11_conn_ready, x11_unread, x11_out, dispatched,
                   delivered>>

\* The display server sends an event to the connected client.
DisplayEvent(ev, bound) ==
    /\ main_pc = "loop"
    /\ x11_pc \in {"poll", "events"}
    /\ Len(x11_unread) < bound
    /\ x11_unread' = Append(x11_unread, ev)
    /\ x11_conn_ready' = TRUE
    /\ UNCHANGED <<main_pc, main_todo, key_pc, x11_pc, x11_events, x11_cmds,
                   x11_waker_ready, x11_out, dispatched, delivered>>

\* `poll.poll(&mut events, None)` returns.
X11Poll ==
    /\ main_pc = "loop"
    /\ x11_pc = "poll"
    /\ x11_waker_ready \/ x11_conn_ready
    /\ x11_events' = (IF x11_waker_ready THEN {"waker"} ELSE {}) \cup
                     (IF x11_conn_ready THEN {"x11"} ELSE {})
    /\ x11_waker_ready' = FALSE
    /\ x11_conn_ready' = FALSE
    /\ x11_pc' = "events"
    /\ UNCHANGED <<main_pc, main_todo, key_pc, x11_cmds, x11_unread, x11_out,
                   dispatched, delivered>>

\* `event.token() != x11_token`: one `receiver.try_recv()`, and for the
\* command it returned, if its keysym is in `mapping`, send_keypress.
X11WakerEvent(query_ok) ==
    /\ main_pc = "loop"
    /\ x11_pc = "events"
    /\ "waker" \in x11_events
    /\ IF x11_cmds = <<>>
         THEN UNCHANGED <<x11_cmds, delivered, x11Vars>>
         ELSE /\ x11_cmds' = Tail(x11_cmds)
              /\ IF Head(x11_cmds).keysym \in DOMAIN Mapping
                   THEN /\ SendKeypress(Mapping[Head(x11_cmds).keysym].keycode,
                                        Head(x11_cmds).modifiers, query_ok)
                        /\ delivered' = Append(delivered, Head(x11_cmds))
                   ELSE UNCHANGED <<delivered, x11Vars>>
    /\ x11_events' = x11_events \ {"waker"}
    /\ x11_pc' = AfterEvent(x11_events')
    /\ UNCHANGED <<main_pc, main_todo, key_pc, x11_waker_ready,
                   x11_conn_ready, x11_unread, x11_out, dispatched>>

\* The connection's event: `conn.poll_for_event()` until it returns no
\* event, a FocusChanged sent for each active-window change.
X11ConnEvent ==
    /\ main_pc = "loop"
    /\ x11_pc = "events"
    /\ "x11" \in x11_events
    /\ x11_out' = DrainEvents(x11_unread)
    /\ x11_unread' = <<>>
    /\ x11_events' = x11_events \ {"x11"}
    /\ x11_pc' = AfterEvent(x11_events')
    /\ UNCHANGED <<main_pc, main_todo, key_pc, x11_cmds, x11_waker_ready,
                   x11_conn_ready, dispatched, delivered>>

BridgeInit ==
    /\ main_pc = "new"
    /\ main_todo = <<>>
    /\ key_pc = "idle"
    /\ x11_pc = "unspawned"
    /\ x11_events = {}
    /\ x11_cmds = <<>>
    /\ x11_waker_ready = FALSE
    /\ x11_conn_ready = FALSE
    /\ x11_unread = <<>>
    /\ x11_out = <<>>
    /\ dispatched = <<>>
    /\ delivered = <<>>

BridgeIdle == BridgeInit

\* Which branch of maybe_load_config a call takes.
ReloadOutcome(cf, fs) ==
    IF cf.path = None \/ cf.last_mtime_check # "Expired" THEN "skipped"
    ELSE IF ~MtimeChanged(cf, fs) THEN "unchanged"
    ELSE IF ~CanOpen(fs) THEN "open_failed"
    ELSE IF from_reader(fs.content) = None THEN "parse_failed"
    ELSE "loaded"

(***************************************************************************)
(* The Resolver's environment and its three entry points.                  *)
(***************************************************************************)
MaxWrites == 2

SelectableApps == {FooUsr, FooOpt, NoProgram}

\* `failed`: a reload attempt has failed and none has succeeded since.
FailedAfter(prev, outcome) ==
    IF outcome \in {"open_failed", "parse_failed"} THEN TRUE
    ELSE IF outcome = "loaded" THEN FALSE
    ELSE prev

\* The record of a call: the fields that are not the call's are at a default.
Call(op, app, mods, action, actions, mode, outcome, failed) ==
    [op |-> op, app |-> app, modifiers |-> mods, action |-> action,
     actions |-> actions, mode |-> mode, reload |-> outcome,
     failed |-> FailedAfter(failed, outcome)]

NoCall(outcome) ==
    Call("new", None, "None", "Click", None, "Ratcheted", outcome, FALSE)

\* More than a second passes since the last modification-time check.
Tick ==
    /\ config.last_mtime_check = "Recent"
    /\ config' = [config EXCEPT !.last_mtime_check = "Expired"]

\* The file is written (or created): new content, a later mtime.
FileWrite(document) ==
    /\ file.mtime < MaxWrites
    /\ file' = [exists |-> TRUE, mtime |-> file.mtime + 1,
                content |-> document]

FileRemove ==
    /\ file.exists
    /\ file' = [file EXCEPT !.exists = FALSE]

SelectApp(app) ==
    LET outcome == ReloadOutcome(config, file)
    IN  /\ config' = select_app(config, file, app)
        /\ call' = Call("select_app", Some(app), "None", "Click", None,
                        "Ratcheted", outcome, call.failed)

GetActionsForModifiers(mods, action) ==
    LET outcome == ReloadOutcome(config, file)
        cf == maybe_load_config(config, file)
    IN  /\ config' = cf
        /\ call' = Call("get_actions_for_modifiers", None, mods, action,
                        actions_lookup(cf, mods, action), "Ratcheted",
                        outcome, call.failed)

RatchetModeForModifier(mods) ==
    LET outcome == ReloadOutcome(config, file)
        cf == maybe_load_config(config, file)
    IN  /\ config' = cf
        /\ call' = Call("ratchet_mode_for_modifier", None, mods, "Click",
                        None, ratchet_lookup(cf, mods), outcome,
                        call.failed)

InitialFiles ==
    { [exists |-> FALSE, mtime |-> 0, content |-> Malformed] }
    \cup { [exists |-> TRUE, mtime |-> 0, content |-> d] : d \in Documents }

ResolverIdle ==
    /\ file = [exists |-> FALSE, mtime |-> 0, content |-> Malformed]
    /\ config = NewConfigFile(None, file)
    /\ call = NoCall("skipped")

(***************************************************************************)
(* SpecDecode: decode_event applied to one frame.                          *)
(***************************************************************************)
\* Frames with the crown header: every value of the delta byte, and the
\* header, flag, notch, touch and button bytes from representative values.
CrownFrames ==
    { <<17, 255, 18, b3, rot, am, notch, 0, touch, 0, pres, 0>> :
        b3 \in {0, 1}, rot \in {0, 1, 255}, am \in Bytes,
        notch \in {0, 1, 255}, touch \in {0, 1, 3}, pres \in {0, 1, 5} }

OtherFrames ==
    { <<32, 0, 1, m>> : m \in {0, 2, 4, 6} } \cup
    { <<1, m>> : m \in {0, 1, 64} } \cup
    { <<16, 255, 65>>, <<16, 255, 64>>, <<>>, <<17>>,
      <<17, 255, 18, 0, 1, 1, 1, 0, 0, 0>>,
      <<17, 255, 18, 0, 0, 0, 0, 0, 1>>,
      <<17, 255, 18, 0, 0, 0, 0, 0, 3, 0>> }

DecodeFrames == CrownFrames \cup OtherFrames

FromIdle == from_v = 0 /\ from_out = None
DecodeIdle == data = <<>> /\ event = None

\* The listener's locals as declared, the thread spawned and not yet run.
HidInit ==
    /\ hid_pc = "start"
    /\ hid_events = {}
    /\ ratchet_enabled = TRUE
    /\ modifiers = 0
    /\ had_rotation = FALSE
    /\ hid_cmds = <<>>
    /\ waker_ready = FALSE
    /\ hidraw_ready = FALSE
    /\ dev_in = 0
    /\ fh_written = None
    /\ handler_pc = "idle"
    /\ hid_event = None
    /\ hid_out = <<>>
    /\ since_press = "none"
    /\ sent_rotation = FALSE

HidIdle == dev_found = FALSE /\ HidInit

InitDecode ==
    /\ data \in DecodeFrames
    /\ event = None
    /\ FromIdle
    /\ ResolverIdle
    /\ HidIdle
    /\ RouterInit
    /\ X11Idle
    /\ KeyNameIdle
    /\ BridgeIdle

DecodeEvent ==
    /\ event = None
    /\ event' = Some(decode_event(data))
    /\ UNCHANGED <<data, fromVars, resolverVars, hidVars, routerVars, x11Vars, keyNameVars, bridgeVars>>

NextDecode == DecodeEvent

SpecDecode == InitDecode /\ [][NextDecode]_vars

(***************************************************************************)
(* SpecFrom: Modifier::from applied to one bitmask.                        *)
(***************************************************************************)
InitFrom ==
    /\ from_v \in Bytes
    /\ from_out = None
    /\ DecodeIdle
    /\ ResolverIdle
    /\ HidIdle
    /\ RouterInit
    /\ X11Idle
    /\ KeyNameIdle
    /\ BridgeIdle

From ==
    /\ from_out = None
    /\ from_out' = Some(ModifierFrom(from_v))
    /\ UNCHANGED <<from_v, decodeVars, resolverVars, hidVars, routerVars, x11Vars, keyNameVars, bridgeVars>>

NextFrom == From

SpecFrom == InitFrom /\ [][NextFrom]_vars

(***************************************************************************)
(* SpecResolver: the Resolver called in any order while the file changes   *)
(* and time passes.                                                        *)
(***************************************************************************)
InitResolver ==
    /\ file \in InitialFiles
    /\ \E path \in {None, Some("config.yaml")} :
          /\ config = NewConfigFile(path, file)
          /\ call = NoCall(ReloadOutcome(
                        [path |-> path, last_mtime_check |-> "Expired",
                         mtime |-> <<"now">>], file))
    /\ DecodeIdle
    /\ FromIdle
    /\ HidIdle
    /\ RouterInit
    /\ X11Idle
    /\ KeyNameIdle
    /\ BridgeIdle

NextResolver ==
    \/ Tick /\ UNCHANGED <<file, call, decodeVars, fromVars, hidVars, routerVars, x11Vars, keyNameVars, bridgeVars>>
    \/ \E d \in Documents :
          FileWrite(d) /\ UNCHANGED <<config, call, decodeVars, fromVars, hidVars, routerVars, x11Vars, keyNameVars, bridgeVars>>
    \/ FileRemove /\ UNCHANGED <<config, call, decodeVars, fromVars, hidVars, routerVars, x11Vars, keyNameVars, bridgeVars>>
    \/ \E app \in SelectableApps :
          SelectApp(app) /\ UNCHANGED <<file, decodeVars, fromVars, hidVars, routerVars, x11Vars, keyNameVars, bridgeVars>>
    \/ \E m \in Modifiers, a \in Actions :
          GetActionsForModifiers(m, a) /\ UNCHANGED <<file, decodeVars, fromVars, hidVars, routerVars, x11Vars, keyNameVars, bridgeVars>>
    \/ \E m \in Modifiers :
          RatchetModeForModifier(m) /\ UNCHANGED <<file, decodeVars, fromVars, hidVars, routerVars, x11Vars, keyNameVars, bridgeVars>>

SpecResolver == InitResolver /\ [][NextResolver]_vars

(***************************************************************************)
(* SpecDecoder: the listener thread, the device and a caller of            *)
(* HidHandler, interleaved in any order.                                   *)
(***************************************************************************)
MaxCmds == 2
MaxDevIn == 2

\* The frames the device sends: one of each kind, two modifier reports,
\* and rotations with zero, positive and negative delta, with and without
\* a detent step, with the crown held or not.
DeviceFrames ==
    { <<16, 255, 65>>, <<1, 2>>, <<32, 0, 1, 4>>, <<17>>,
      <<17, 255, 18, 0, 0, 0, 0, 0, 1, 0, 0, 0>>,
      <<17, 255, 18, 0, 0, 0, 0, 0, 3, 0, 0, 0>>,
      <<17, 255, 18, 0, 0, 0, 0, 0, 0, 0, 1, 0>>,
      <<17, 255, 18, 0, 0, 0, 0, 0, 0, 0, 5, 0>> } \cup
    { <<17, 255, 18, 0, 1, am, notch, 0, 0, 0, pres, 0>> :
        am \in {0, 1, 255}, notch \in {0, 1}, pres \in {0, 1} }

\* The Router as the Decoder sees it: the resolved mode differs from the
\* tracked one, so last_mode is updated and the command for it sent
\* (`if mode != last_mode { last_mode = mode; match mode { .. } }`).
RouterSwitches(mode) ==
    /\ mode # last_mode
    /\ last_mode' = mode
    /\ SendCommand(CommandFor(mode))
    /\ UNCHANGED <<last_modifiers, res, sent_cmds, executed>>

InitDecoder ==
    /\ dev_found \in BOOLEAN
    /\ HidInit
    /\ RouterInit
    /\ DecodeIdle
    /\ FromIdle
    /\ ResolverIdle
    /\ X11Idle
    /\ KeyNameIdle
    /\ BridgeIdle

NextDecoder ==
    \/ \E mode \in RatchetModes :
          /\ Len(hid_cmds) < MaxCmds
          /\ RouterSwitches(mode)
          /\ UNCHANGED <<decodeVars, fromVars, resolverVars, x11Vars, keyNameVars, bridgeVars>>
    \/ Wake /\ UNCHANGED <<decodeVars, fromVars, resolverVars, routerVars, x11Vars, keyNameVars, bridgeVars>>
    \/ DeviceFrame(MaxDevIn)
          /\ UNCHANGED <<decodeVars, fromVars, resolverVars, routerVars, x11Vars, keyNameVars, bridgeVars>>
    \/ HidStart /\ UNCHANGED <<decodeVars, fromVars, resolverVars, routerVars, x11Vars, keyNameVars, bridgeVars>>
    \/ HidPoll /\ UNCHANGED <<decodeVars, fromVars, resolverVars, routerVars, x11Vars, keyNameVars, bridgeVars>>
    \/ HidWakerEvent
          /\ UNCHANGED <<decodeVars, fromVars, resolverVars, routerVars, x11Vars, keyNameVars, bridgeVars>>
    \/ HidRawEvent
          /\ UNCHANGED <<decodeVars, fromVars, resolverVars, routerVars, x11Vars, keyNameVars, bridgeVars>>
    \/ HidReadWouldBlock
          /\ UNCHANGED <<decodeVars, fromVars, resolverVars, routerVars, x11Vars, keyNameVars, bridgeVars>>
    \/ \E f \in DeviceFrames :
          HidRead(f) /\ UNCHANGED <<decodeVars, fromVars, resolverVars, routerVars, x11Vars, keyNameVars, bridgeVars>>

SpecDecoder == InitDecoder /\ [][NextDecoder]_vars

(***************************************************************************)
(* SpecRouter: the Router loop taking messages from its channel while the  *)
(* file changes and time passes between them.                              *)
(***************************************************************************)
MaxRouterWrites == 1

\* One bitmask per Modifier, the Alt one with a Shift-group bit set too.
RouterBitmasks == {0, 2, 6, 16}
RotationBitmasks == {0, 6}

\* What the file is rewritten to while the Router runs: the spec's example
\* layout, or a document that does not parse.
RouterDocuments == {Document(ConfigFullPath), Malformed}

FocusMessages == { FocusChanged(p) : p \in SelectableApps }

DeviceMessages ==
    { ModifiersChanged(m) : m \in RouterBitmasks } \cup
    { Gesture(g, m, 0, 0, FALSE) :
        g \in {"CrownTouched", "CrownReleased", "CrownClicked"},
        m \in RouterBitmasks } \cup
    { Gesture("CrownRotated", m, amount, notch, pressed) :
        m \in RotationBitmasks, amount \in {-1, 0, 1}, notch \in {0, 1},
        pressed \in BOOLEAN }

InitRouter ==
    /\ file \in InitialFiles
    /\ config = NewConfigFile(Some("config.yaml"), file)
    /\ call = NoCall("skipped")
    /\ RouterInit
    /\ DecodeIdle
    /\ FromIdle
    /\ HidIdle
    /\ X11Idle
    /\ KeyNameIdle
    /\ BridgeIdle

NextRouter ==
    \/ Tick /\ UNCHANGED <<file, call, decodeVars, fromVars, hidVars, routerVars, x11Vars, keyNameVars, bridgeVars>>
    \/ \E d \in RouterDocuments :
          /\ file.mtime < MaxRouterWrites
          /\ FileWrite(d)
          /\ UNCHANGED <<config, call, decodeVars, fromVars, hidVars, routerVars, x11Vars, keyNameVars, bridgeVars>>
    \/ FileRemove
          /\ UNCHANGED <<config, call, decodeVars, fromVars, hidVars, routerVars, x11Vars, keyNameVars, bridgeVars>>
    \/ \E r \in FocusMessages, elapsed \in BOOLEAN :
          /\ RouterHandle(r, elapsed)
          /\ UNCHANGED <<file, call, decodeVars, fromVars, hidVars, x11Vars, keyNameVars, bridgeVars>>
    \/ \E r \in DeviceMessages :
          /\ RouterHandle(r, FALSE)
          /\ UNCHANGED <<file, call, decodeVars, fromVars, hidVars, x11Vars, keyNameVars, bridgeVars>>

SpecRouter == InitRouter /\ [][NextRouter]_vars

(***************************************************************************)
(* SpecSendKey: send_keypress called again and again while the user        *)
(* presses and releases modifier keys between the calls.                   *)
(***************************************************************************)
\* The requested bitmasks: every combination of Shift, Lock, Control, Mod1.
RequestedModifiers == 0..15

InitSendKey ==
    /\ keys_down \in SUBSET ModKeycodes
    /\ sk_call = None
    /\ sk_before = {}
    /\ injected = <<>>
    /\ DecodeIdle
    /\ FromIdle
    /\ ResolverIdle
    /\ HidIdle
    /\ RouterInit
    /\ KeyNameIdle
    /\ BridgeIdle

NextSendKey ==
    \/ \E mods \in RequestedModifiers, query_ok \in BOOLEAN :
          /\ SendKeypress(TargetKeycode, mods, query_ok)
          /\ UNCHANGED <<decodeVars, fromVars, resolverVars, hidVars, routerVars,
                         keyNameVars, bridgeVars>>
    \/ \E k \in ModKeycodes :
          /\ UserKey(k)
          /\ UNCHANGED <<decodeVars, fromVars, resolverVars, hidVars, routerVars,
                         keyNameVars, bridgeVars>>

SpecSendKey == InitSendKey /\ [][NextSendKey]_vars

(***************************************************************************)
(* SpecKeyName: deserialize_string_lowercase applied to one key name.      *)
(***************************************************************************)
MaxModifierNames == 2

\* Modifier names as a file may spell them: the three known ones in
\* several cases, a misspelt one, an unknown one and the empty one.
ModifierSpellings ==
    { <<"s", "h", "i", "f", "t">>, <<"S", "h", "i", "f", "t">>,
      <<"a", "l", "t">>, <<"A", "L", "T">>,
      <<"c", "t", "r", "l">>, <<"C", "t", "r", "L">>,
      <<"s", "h", "f", "i", "t">>, <<"h", "y", "p", "e", "r">>, <<>> }

\* Key-symbol names: known ones in several cases, an unknown one, none.
KeySpellings ==
    { <<"a">>, <<"A">>, <<"F", "1">>, <<"f", "1">>,
      <<"n", "o", "k", "e", "y">>, <<>> }

RECURSIVE SeqsUpTo(_, _)
SeqsUpTo(S, n) ==
    IF n = 0 THEN {<<>>}
    ELSE LET shorter == SeqsUpTo(S, n - 1)
         IN  shorter \cup { Append(q, x) : q \in shorter, x \in S }

InitKeyName ==
    /\ kn_modifiers \in SeqsUpTo(ModifierSpellings, MaxModifierNames)
    /\ kn_key \in KeySpellings
    /\ kn_out = None
    /\ DecodeIdle
    /\ FromIdle
    /\ ResolverIdle
    /\ HidIdle
    /\ RouterInit
    /\ X11Idle
    /\ BridgeIdle

NextKeyName ==
    Deserialize
        /\ UNCHANGED <<decodeVars, fromVars, resolverVars, hidVars, routerVars,
                       x11Vars, bridgeVars>>

SpecKeyName == InitKeyName /\ [][NextKeyName]_vars

(***************************************************************************)
(* SpecBridge: start-up, the Router's send_key calls, the display server   *)
(* and the x11_listener thread, interleaved in any order.                  *)
(***************************************************************************)
MaxKeys == 2
MaxDisplayEvents == 1

\* The keys a list may press: `a` plain and with Shift, and F1, which the
\* keyboard of Mapping does not carry.
BridgeKeys == { KeyPress(97, 0), KeyPress(97, 1), KeyPress(65470, 0) }

\* The lists the Router executes: one or two KeyPress operations.
BridgeLists == SeqsUpTo(BridgeKeys, 2) \ {<<>>}

\* Events of the display: another event, an active-window change with no
\* window, with a window without a pid, and with a window, pid and program.
DisplayEvents ==
    { PropertyNotify("other", None, None, None),
      PropertyNotify("_NET_ACTIVE_WINDOW", None, None, None),
      PropertyNotify("_NET_ACTIVE_WINDOW", Some(1), None, None),
      PropertyNotify("_NET_ACTIVE_WINDOW", Some(1), Some(1),
                     Some(FooUsr)) }

InitBridge ==
    /\ BridgeInit
    /\ DecodeIdle
    /\ FromIdle
    /\ ResolverIdle
    /\ HidIdle
    /\ RouterInit
    /\ X11Idle
    /\ KeyNameIdle

NextBridge ==
    \/ \E new_ok \in BOOLEAN :
          /\ MainStart(new_ok)
          /\ UNCHANGED <<decodeVars, fromVars, resolverVars, hidVars,
                         routerVars, x11Vars, keyNameVars>>
    \/ \E connect_ok \in BOOLEAN, strategy \in PanicStrategies :
          /\ X11Start(connect_ok, strategy)
          /\ UNCHANGED <<decodeVars, fromVars, resolverVars, hidVars,
                         routerVars, x11Vars, keyNameVars>>
    \/ \E commands \in BridgeLists :
          /\ Len(dispatched) + Len(commands) <= MaxKeys
          /\ RouterExecutes(commands)
          /\ UNCHANGED <<decodeVars, fromVars, resolverVars, hidVars,
                         routerVars, x11Vars, keyNameVars>>
    \/ X11Send /\ UNCHANGED <<decodeVars, fromVars, resolverVars, hidVars,
                              routerVars, x11Vars, keyNameVars>>
    \/ X11Wake /\ UNCHANGED <<decodeVars, fromVars, resolverVars, hidVars,
                              routerVars, x11Vars, keyNameVars>>
    \/ \E ev \in DisplayEvents :
          /\ DisplayEvent(ev, MaxDisplayEvents)
          /\ UNCHANGED <<decodeVars, fromVars, resolverVars, hidVars,
                         routerVars, x11Vars, keyNameVars>>
    \/ X11Poll /\ UNCHANGED <<decodeVars, fromVars, resolverVars, hidVars,
                              routerVars, x11Vars, keyNameVars>>
    \/ \E query_ok \in BOOLEAN :
          /\ X11WakerEvent(query_ok)
          /\ UNCHANGED <<decodeVars, fromVars, resolverVars, hidVars,
                         routerVars, keyNameVars>>
    \/ X11ConnEvent /\ UNCHANGED <<decodeVars, fromVars, resolverVars, hidVars,
                                   routerVars, x11Vars, keyNameVars>>

SpecBridge == InitBridge /\ [][NextBridge]_vars

(***************************************************************************)
(* Claims about the Decoder, checked under SpecDecoder.                    *)
(***************************************************************************)
LastFrameWas(kind) == hid_event # None /\ hid_event[1].kind = kind

Clicks == { i \in DOMAIN hid_out : hid_out[i].msg = "CrownClicked" }

\* C1: a ReleasedAfterPress that follows a Pressed and, after it, at least
\* one significant Rotated (no other Pressed in between) sends no
\* CrownClicked; one that follows a Pressed with no Rotated in between
\* sends exactly one CrownClicked.
C1_ClickSuppression ==
    LastFrameWas("Release") =>
        /\ since_press = "sig" => Clicks = {}
        /\ since_press = "norot" => Cardinality(Clicks) = 1 /\ Len(hid_out) = 1

\* C1 witness: a release after a press and a significant rotation, with
\* nothing sent.
C1_Witness ==
    /\ LastFrameWas("Release")
    /\ since_press = "sig"
    /\ hid_out = <<>>

\* C6: with the device found, whenever the Decoder is blocked in its wait
\* with no wake pending and no send in progress, every command sent has
\* been applied: none is left in the channel, and the Decoder's ratchet
\* flag equals the Router's tracked mode.
C6_EveryCommandApplied ==
    (dev_found /\ hid_pc = "poll" /\ ~waker_ready /\ handler_pc = "idle") =>
        /\ hid_cmds = <<>>
        /\ ratchet_enabled = (last_mode = "Ratcheted")

(***************************************************************************)
(* Claims about the Resolver, checked under SpecResolver.                  *)
(***************************************************************************)
\* C2 as stated: with a live Configuration holding a full-path key P (and
\* no key that is P's bare final segment), after selectApp of any
\* identifier whose final path segment is that of P (P itself included)
\* the active view is P's AppMapping.
C2_SameBasenameSelectsFullPathKey ==
    (call.op = "select_app" /\ config.config # None) =>
        LET conf == config.config[1]
            app == call.app[1]
        IN  \A P \in DOMAIN conf.app :
                (/\ Len(P) > 1
                 /\ <<P[Len(P)]>> \notin DOMAIN conf.app
                 /\ app[Len(app)] = P[Len(P)]) =>
                    config.active_conf =
                        Some([alloc |-> conf.alloc, key |-> P, val |-> conf.app[P]])

\* C2 amended: with a live Configuration, after selectApp(app) the active
\* view is the entry whose key is app when there is one; else the entry
\* whose key is app's final path segment alone when there is one; else
\* absent.  A full-path key is matched by that exact path only.
C2_AppMatching ==
    (call.op = "select_app" /\ config.config # None) =>
        LET conf == config.config[1]
            keys == DOMAIN conf.app
            app == call.app[1]
            last == <<app[Len(app)]>>
            Entry(k) == Some([alloc |-> conf.alloc, key |-> k, val |-> conf.app[k]])
        IN  /\ app \in keys => config.active_conf = Entry(app)
            /\ (app \notin keys /\ last \in keys) => config.active_conf = Entry(last)
            /\ (app \notin keys /\ last \notin keys) => config.active_conf = None

\* C2 witness: /opt/other/foo was selected and resolved to the entry keyed
\* by the bare name foo, while /usr/bin/foo is a key too.
C2_Witness ==
    /\ call.op = "select_app"
    /\ call.app = Some(FooOpt)
    /\ config.config # None
    /\ FooUsr \in DOMAIN config.config[1].app
    /\ config.active_conf # None
    /\ config.active_conf[1].key = Foo

KindField ==
    [a \in Actions |->
        CASE a = "Touch" -> "touch" [] a = "Release" -> "release"
          [] a = "Click" -> "click" [] a = "Left" -> "left"
          [] a = "Right" -> "right" [] a = "LeftPressed" -> "left_pressed"
          [] a = "RightPressed" -> "right_pressed"]

\* The action list a view holds for (modifier, kind); empty when the view
\* is absent or has no entry for the modifier.
ListIn(view, m, a) ==
    IF view # None /\ m \in DOMAIN view[1].val.mapping
    THEN view[1].val.mapping[m][KindField[a]]
    ELSE <<>>

\* C3: actionsFor(modifier, kind) returns the active app's list when the
\* active app has an entry for the modifier and the list is non-empty, else
\* the global entry's list when that is non-empty, else none; it never
\* returns an empty list.
C3_ActionsFor ==
    call.op = "get_actions_for_modifiers" =>
        LET inActive == ListIn(config.active_conf, call.modifiers, call.action)
            inGlobal == ListIn(config.global_conf, call.modifiers, call.action)
        IN  /\ call.actions # Some(<<>>)
            /\ inActive # <<>> => call.actions = Some(inActive)
            /\ (inActive = <<>> /\ inGlobal # <<>>) => call.actions = Some(inGlobal)
            /\ (inActive = <<>> /\ inGlobal = <<>>) => call.actions = None

\* C3 witness: the active app has an entry for the modifier whose list for
\* the kind is empty, and the global list was returned.
C3_Witness ==
    /\ call.op = "get_actions_for_modifiers"
    /\ config.active_conf # None
    /\ call.modifiers \in DOMAIN config.active_conf[1].val.mapping
    /\ ListIn(config.active_conf, call.modifiers, call.action) = <<>>
    /\ call.actions # None
    /\ call.actions = Some(ListIn(config.global_conf, call.modifiers, call.action))

\* The view ratchetModeFor resolves in: the active app when it has an entry
\* for the modifier, else global when it has one, else none.
MatchingView(m) ==
    IF config.active_conf # None /\ m \in DOMAIN config.active_conf[1].val.mapping
        THEN config.active_conf
    ELSE IF config.global_conf # None /\ m \in DOMAIN config.global_conf[1].val.mapping
        THEN config.global_conf
    ELSE None

\* C4: ratchetModeFor(modifier) is the matching ButtonMapping's override
\* when it has one, its AppMapping's default mode when it has none, and
\* Ratcheted when neither view has an entry (so also with no live
\* configuration).
C4_RatchetModeFor ==
    call.op = "ratchet_mode_for_modifier" =>
        LET view == MatchingView(call.modifiers)
        IN  /\ view = None => call.mode = "Ratcheted"
            /\ view # None =>
                LET entry == view[1].val.mapping[call.modifiers]
                IN  /\ entry.mode # None => call.mode = entry.mode[1]
                    /\ entry.mode = None => call.mode = view[1].val.mode
            /\ config.config = None => call.mode = "Ratcheted"

\* C4 witness: the matching entry has no override and its AppMapping's
\* default, Free, was returned.
C4_Witness ==
    /\ call.op = "ratchet_mode_for_modifier"
    /\ MatchingView(call.modifiers) # None
    /\ MatchingView(call.modifiers)[1].val.mapping[call.modifiers].mode = None
    /\ call.mode = "Free"

\* C5: once a reload attempt has failed, and until one succeeds, the live
\* configuration and both views are absent, actionsFor returns none and
\* ratchetModeFor returns Ratcheted.
C5_FailedReloadClears ==
    call.failed =>
        /\ config.config = None
        /\ config.global_conf = None
        /\ config.active_conf = None
        /\ call.op = "get_actions_for_modifiers" => call.actions = None
        /\ call.op = "ratchet_mode_for_modifier" => call.mode = "Ratcheted"

\* C9: a Resolver call whose check finds the file's modification time equal
\* to the recorded one keeps the live configuration and the global view
\* (same references); the active view stays the same reference unless the
\* call is selectApp, and then it is an entry of that same configuration.
C9_ReloadIdempotence ==
    [][(/\ config.path # None
        /\ config.last_mtime_check = "Expired"
        /\ config'.last_mtime_check = "Recent"
        /\ file.exists
        /\ config.mtime = <<"file", file.mtime>>)
       =>
       (/\ config'.config = config.config
        /\ config'.global_conf = config.global_conf
        /\ call'.op # "select_app" => config'.active_conf = config.active_conf
        /\ config'.active_conf # None =>
              /\ config.config # None
              /\ config'.active_conf[1].alloc = config.config[1].alloc
              /\ config'.active_conf[1].val =
                    config.config[1].app[config'.active_conf[1].key])]_vars

\* C9 witness: a lookup has just checked the modification time, found it
\* unchanged, and a configuration is live.
C9_Witness ==
    /\ call.reload = "unchanged"
    /\ call.op = "get_actions_for_modifiers"
    /\ config.config # None
    /\ config.active_conf # None

(***************************************************************************)
(* Claims about the Router (SpecRouter).                                   *)
(***************************************************************************)
GestureKind ==
    ("CrownTouched" :> "Touch") @@ ("CrownReleased" :> "Release") @@
    ("CrownClicked" :> "Click")

\* The list actionsFor(Modifier(b), kind) yields on the live views: the
\* active app's when non-empty, else the global one; empty stands for none.
ListFor(b, kind) ==
    LET inActive == ListIn(config.active_conf, ModifierFrom(b), kind)
    IN  IF inActive # <<>> THEN inActive
        ELSE ListIn(config.global_conf, ModifierFrom(b), kind)

NonBlank(s) == SelectSeq(s, LAMBDA c : ~IsAsciiWhitespace(c))

\* The number of words of s: the positions where a word starts.
WordCount(s) ==
    Cardinality({ i \in 1..Len(s) :
                    /\ ~IsAsciiWhitespace(s[i])
                    /\ (i = 1 \/ IsAsciiWhitespace(s[i-1])) })

RECURSIVE Concat(_)
Concat(ss) == IF ss = <<>> THEN <<>> ELSE Head(ss) \o Concat(Tail(ss))

\* Effect e is what operation o asks for: the key sent as given, or a launch
\* of the command line's first word with the remaining words as arguments.
Carries(e, o) ==
    IF o.op = "KeyPress"
    THEN e.eff = "SendKey" /\ e.keysym = o.keysym /\ e.modifiers = o.modifiers
    ELSE /\ e.eff = "Spawn"
         /\ 1 + Len(e.args) = WordCount(o.command)
         /\ Concat(<<e.cmd>> \o e.args) = NonBlank(o.command)
         /\ \A w \in {e.cmd} \cup {e.args[i] : i \in 1..Len(e.args)} :
                w # <<>> /\ NonBlank(w) = w

HandledGesture ==
    res # None /\ res[1].msg \in DOMAIN GestureKind

\* C7 as stated: after a CrownTouched, CrownReleased or CrownClicked with
\* bitmask b, what was dispatched is the list of actionsFor(Modifier(b),
\* kind), one effect per operation in list order, a key for each KeyPress
\* and one process launch for each Execute.
C7_EveryExecuteLaunches ==
    HandledGesture =>
        LET ops == ListFor(res[1].modifiers, GestureKind[res[1].msg])
        IN  /\ Len(executed) = Len(ops)
            /\ \A i \in 1..Len(ops) :
                  i <= Len(executed) => Carries(executed[i], ops[i])

\* An Execute whose command line has no word launches nothing.
Effective(ops) ==
    SelectSeq(ops, LAMBDA o : o.op = "KeyPress" \/ NonBlank(o.command) # <<>>)

\* C7: after a CrownTouched, CrownReleased or CrownClicked with bitmask b,
\* what was dispatched is the list of actionsFor(Modifier(b), kind) without
\* the Executes whose command line holds no word, one effect per operation
\* in list order: the key for a KeyPress, one launch of the first word with
\* the other words as arguments for an Execute, whether or not earlier
\* launches failed; nothing is dispatched when the lookup yields none.
C7_GestureDispatch ==
    HandledGesture =>
        LET ops == Effective(ListFor(res[1].modifiers, GestureKind[res[1].msg]))
        IN  /\ Len(executed) = Len(ops)
            /\ \A i \in 1..Len(ops) : Carries(executed[i], ops[i])
            /\ sent_cmds = <<>>

\* C7 witness: a gesture was handled whose list starts with an Execute; its
\* launch failed and the KeyPress after it was still sent.
C7_Witness ==
    /\ HandledGesture
    /\ Len(executed) = 2
    /\ executed[1].eff = "Spawn" /\ ~executed[1].ok
    /\ executed[2].eff = "SendKey"

(***************************************************************************)
(* Claims about Modifier::from (SpecFrom).                                 *)
(***************************************************************************)
Bit(b, k) == (b \div 2^k) % 2 = 1
AltBits == {2, 6}
ShiftBits == {1, 5}
CtrlBits == {0, 4}
AnyBit(b, group) == \E k \in group : Bit(b, k)

\* C8: for every 8-bit bitmask the derived Modifier is Alt if a bit of the
\* Alt group is set, else Shift if a bit of the Shift group is set, else
\* Ctrl if a bit of the Ctrl group is set, else None.
C8_ModifierPriority ==
    from_out # None =>
        /\ from_out[1] \in Modifiers
        /\ AnyBit(from_v, AltBits) => from_out[1] = "Alt"
        /\ (~AnyBit(from_v, AltBits) /\ AnyBit(from_v, ShiftBits)) =>
                from_out[1] = "Shift"
        /\ (~AnyBit(from_v, AltBits) /\ ~AnyBit(from_v, ShiftBits)
                /\ AnyBit(from_v, CtrlBits)) => from_out[1] = "Ctrl"
        /\ (~AnyBit(from_v, AltBits) /\ ~AnyBit(from_v, ShiftBits)
                /\ ~AnyBit(from_v, CtrlBits)) => from_out[1] = "None"

\* C8 witness: a bitmask with bits of the Alt, Shift and Ctrl groups set
\* was converted, to Alt.
C8_Witness ==
    /\ from_out = Some("Alt")
    /\ AnyBit(from_v, AltBits)
    /\ AnyBit(from_v, ShiftBits)
    /\ AnyBit(from_v, CtrlBits)

(***************************************************************************)
(* Claims about decode_event (SpecDecode).                                 *)
(***************************************************************************)
\* The value of a byte read as a signed 8-bit number.
Signed8(b) == IF b <= 127 THEN b ELSE b - 256

HasRotationHeader(d) == Len(d) >= 11 /\ d[1] = 17 /\ d[3] = 18 /\ d[4] = 0

\* C10 as stated: a frame with the rotation header whose delta byte (the
\* byte the amount is read from) is nonzero decodes to Rotated with the
\* amount that byte read as signed 8-bit, never 0.
C10_NonzeroDeltaIsRotation ==
    (event # None /\ HasRotationHeader(data) /\ data[6] # 0) =>
        /\ event[1].kind = "Rotate"
        /\ event[1].amount = Signed8(data[6])
        /\ event[1].amount # 0

\* C10: a frame with the rotation header decodes to Rotated exactly when
\* its rotation byte (offset 4) is nonzero; the amount is then the delta
\* byte (offset 5) read as signed 8-bit and sign-extended, so 0x80..0xFF
\* give -128..-1, and it is 0 exactly when the delta byte is 0.
C10_RotationDecoding ==
    (event # None /\ HasRotationHeader(data)) =>
        /\ (event[1].kind = "Rotate") <=> (data[5] # 0)
        /\ data[5] # 0 =>
              /\ event[1].amount = Signed8(data[6])
              /\ event[1].amount \in -128..127
              /\ data[6] >= 128 => event[1].amount \in -128..-1
              /\ (event[1].amount = 0) <=> (data[6] = 0)

\* C10 witness: a rotation frame with delta byte 0x80 was decoded, to the
\* amount -128.
C10_Witness ==
    /\ event # None
    /\ HasRotationHeader(data)
    /\ data[5] # 0 /\ data[6] = 128
    /\ event[1].kind = "Rotate"
    /\ event[1].amount = -128

(***************************************************************************)
(* Claims about the Resolver's views (SpecResolver).                       *)
(***************************************************************************)
\* The reference to the entry of the live Configuration under `key`.
LiveEntry(key) ==
    LET conf == config.config[1]
    IN  IF key \in DOMAIN conf.app
        THEN <<[alloc |-> conf.alloc, key |-> key, val |-> conf.app[key]]>>
        ELSE <<>>

\* The resolution of the selected app in the live Configuration: its own
\* entry, else the entry under its final path segment, else none.
LiveResolution ==
    IF config.active_app = <<>> THEN <<>>
    ELSE LET app == config.active_app[1]
         IN  IF LiveEntry(app) # <<>> THEN LiveEntry(app)
             ELSE LiveEntry(<<app[Len(app)]>>)

\* C13: in every Resolver state, with no live Configuration both views are
\* absent; with one, it is the latest one loaded, the global view is its
\* `global` entry (absent if it has none) and the active view is the
\* resolution of the selected app in it, so neither view refers to an
\* entry of a replaced Configuration.
C13_SnapshotConsistency ==
    /\ config.config = <<>> =>
          config.global_conf = <<>> /\ config.active_conf = <<>>
    /\ config.config # <<>> =>
          /\ config.config[1].alloc = config.loads
          /\ config.global_conf = LiveEntry(GlobalKey)
          /\ config.active_conf = LiveResolution
          /\ \A v \in {config.global_conf, config.active_conf} :
                v # <<>> => v[1].alloc = config.loads

\* C13 witness: a second Configuration replaced the first while an app was
\* selected, the active view is taken from it, and it has no global entry
\* where the replaced one may have had one.
C13_Witness ==
    /\ config.loads = 2
    /\ config.config # <<>>
    /\ config.active_conf # <<>>
    /\ config.active_conf[1].alloc = 2
    /\ config.global_conf = <<>>

(***************************************************************************)
(* Claims about the Router's mode tracking (SpecRouter).                   *)
(***************************************************************************)
\* ratchetModeFor(m) on the Resolver's views: the matching entry's
\* override, else its AppMapping's mode, else Ratcheted.
ModeFor(m) ==
    LET view == MatchingView(m)
    IN  IF view = <<>> THEN "Ratcheted"
        ELSE IF view[1].val.mapping[m].mode # <<>>
            THEN view[1].val.mapping[m].mode[1]
        ELSE view[1].val.mode

\* A step of the Router loop: a message is held, the file is untouched and
\* the Resolver has just looked at the clock or was not called.
RouterStepOn(kind) ==
    /\ res' # <<>>
    /\ res'[1].msg = kind
    /\ file' = file
    /\ <<res', config', last_mode', last_modifiers', sent_cmds', executed'>>
          # <<res, config, last_mode, last_modifiers, sent_cmds, executed>>
    /\ config'.last_mtime_check = "Recent" \/ config' = config

\* C15: a Router step handling FocusChanged(path) leaves path as the
\* Resolver's selected app and the tracked Modifier unchanged, makes the
\* tracked mode ratchetModeFor(tracked Modifier), and sends exactly the
\* one command for the new mode when the mode changed, none otherwise.
C15_FocusChangedHandling ==
    [][RouterStepOn("FocusChanged") =>
          /\ config'.active_app = <<res'[1].program>>
          /\ last_modifiers' = last_modifiers
          /\ last_mode' = ModeFor(last_modifiers)'
          /\ last_mode' # last_mode =>
                sent_cmds' = <<IF last_mode' = "Ratcheted"
                               THEN "EnableRatchet" ELSE "DisableRatchet">>
          /\ last_mode' = last_mode => sent_cmds' = <<>>
          /\ executed' = <<>>]_vars

\* C15 witness: FocusChanged was handled, the mode went from Ratcheted to
\* Free and DisableRatchet was sent.
C15_Witness ==
    /\ res # <<>>
    /\ res[1].msg = "FocusChanged"
    /\ config.active_app = <<res[1].program>>
    /\ last_mode = "Free"
    /\ sent_cmds = <<"DisableRatchet">>

(***************************************************************************)
(* Claims about the Decoder's rotations and ratchet frames (SpecDecoder).  *)
(***************************************************************************)
\* A step of the read loop that took one frame from the device.
FrameHandled == dev_in' = dev_in - 1

\* C17: every CrownRotated message the Decoder sends comes from a Rotated
\* event that was significant when it was decoded: the ratchet flag was
\* Free and the raw amount not 0, or the detent amount was not 0; and the
\* message carries that event's amounts.
C17_OnlySignificantForwarded ==
    [][FrameHandled =>
          \A i \in DOMAIN hid_out' :
              hid_out'[i].msg = "CrownRotated" =>
                  /\ hid_event'[1].kind = "Rotate"
                  /\ \/ ~ratchet_enabled /\ hid_event'[1].amount # 0
                     \/ hid_event'[1].notch_amount # 0
                  /\ hid_out'[i].amount = hid_event'[1].amount
                  /\ hid_out'[i].notch_amount = hid_event'[1].notch_amount]_vars

\* C17 witness: in Free mode a rotation with no detent step was forwarded.
C17_Witness ==
    /\ LastFrameWas("Rotate")
    /\ ~ratchet_enabled
    /\ Len(hid_out) = 1
    /\ hid_out[1].msg = "CrownRotated"
    /\ hid_out[1].notch_amount = 0
    /\ hid_out[1].amount # 0

\* C18: once the listener has started with the device found, the last
\* ratchet frame written is the one for the current ratchet flag: the on
\* frame while no DisableRatchet was received, and after every command and
\* every DeviceConnected frame the frame of the last command received.
C18_RatchetReassertion ==
    (dev_found /\ hid_pc # "start") =>
        /\ ratchet_enabled => fh_written = <<RatchetOnFrame>>
        /\ ~ratchet_enabled => fh_written = <<RatchetOffFrame>>

\* C18 witness: a DeviceConnected frame was handled in Free mode and the
\* off frame is the last one written.
C18_Witness ==
    /\ dev_found
    /\ LastFrameWas("Connected")
    /\ ~ratchet_enabled
    /\ fh_written = <<RatchetOffFrame>>

(***************************************************************************)
(* Claims about the Router's rotations (SpecRouter).                       *)
(***************************************************************************)
HandledRotation == res # <<>> /\ res[1].msg = "CrownRotated"

\* C16: after the Router handled a CrownRotated message whose amount is 0,
\* or whose detent amount is 0 while the tracked mode is Ratcheted, nothing
\* was dispatched, whatever the Decoder's mode was when it sent the message.
C16_RatchetedZeroDetentDiscard ==
    (/\ HandledRotation
     /\ \/ res[1].amount = 0
        \/ last_mode = "Ratcheted" /\ res[1].notch_amount = 0) =>
        executed = <<>> /\ sent_cmds = <<>>

\* C16 witness: a rotation to the right with no detent step, for which the
\* views hold a list, was handled in Ratcheted mode and nothing dispatched.
C16_Witness ==
    /\ HandledRotation
    /\ res[1].amount = 1 /\ ~res[1].pressed
    /\ res[1].notch_amount = 0
    /\ last_mode = "Ratcheted"
    /\ ListFor(res[1].modifiers, "Right") # <<>>
    /\ executed = <<>>

(***************************************************************************)
(* Claims about send_keypress (SpecSendKey).                               *)
(***************************************************************************)
\* The modifier bit of a modifier key.
ModifierOfKey(k) ==
    KeycodesOfMods[CHOOSE i \in DOMAIN KeycodesOfMods :
                        KeycodesOfMods[i].keycode = k].modifier

\* The modifier bits that have a key down in `keys`.
HeldModifiers(keys) == { ModifierOfKey(k) : k \in keys \cap ModKeycodes }

RequestedBit(m) == (sk_call[1].modifiers \div m) % 2 = 1

EventsOn(action, keycodes) ==
    { i \in DOMAIN injected :
        injected[i].action = action /\ injected[i].keycode \in keycodes }

KeysOf(indices) == { injected[i].keycode : i \in indices }

ModifierPresses == EventsOn("KeyPress", ModKeycodes)
ModifierReleases == EventsOn("KeyRelease", ModKeycodes)
TargetPresses == EventsOn("KeyPress", {TargetKeycode})
TargetReleases == EventsOn("KeyRelease", {TargetKeycode})

Lowered(name) ==
    [i \in 1..Len(name) |->
        IF name[i] \in DOMAIN UpperToLower THEN UpperToLower[name[i]]
        ELSE name[i]]

KnownModifiers ==
    (<<"s", "h", "i", "f", "t">> :> 1) @@ (<<"a", "l", "t">> :> 8) @@
    (<<"c", "t", "r", "l">> :> 4)

NamedModifiers ==
    { Lowered(kn_modifiers[i]) : i \in DOMAIN kn_modifiers }

RECURSIVE SumOf(_)
SumOf(S) ==
    IF S = {} THEN 0
    ELSE LET x == CHOOSE y \in S : TRUE IN x + SumOf(S \ {x})

\* C12: a key name whose key-symbol name is not in the symbol table, or
\* one of whose modifier names is not shift, alt or ctrl in any case, fails
\* to load; a key name of known names only loads as the symbol's code with
\* the bits of exactly the named modifiers.
C12_UnknownNamesFail ==
    kn_out # <<>> =>
        IF \/ Lowered(kn_key) \notin DOMAIN KEYSYMS
           \/ \E n \in NamedModifiers : n \notin DOMAIN KnownModifiers
        THEN ~kn_out[1].ok
        ELSE /\ kn_out[1].ok
             /\ kn_out[1].keysym = KEYSYMS[Lowered(kn_key)]
             /\ kn_out[1].modifiers =
                    SumOf({ KnownModifiers[n] : n \in NamedModifiers })

(***************************************************************************)
(* C19: KeyPress delivery and order.                                       *)
(***************************************************************************)
\* The commands among `cmds` whose keysym the keyboard carries.
OnKeyboard(cmds) == SelectSeq(cmds, LAMBDA c : c.keysym \in DOMAIN Mapping)

IsPrefixOf(a, b) == Len(a) <= Len(b) /\ SubSeq(b, 1, Len(a)) = a

\* The x11_listener thread is blocked in poll with nothing to wake it: no
\* wake and no display event pending, and no send_key call under way.
BridgeAtRest ==
    /\ main_pc = "loop"
    /\ x11_pc = "poll"
    /\ ~x11_waker_ready
    /\ ~x11_conn_ready
    /\ key_pc = "idle"
    /\ main_todo = <<>>

\* C19: the key presses injected are, in order, the first of the KeyPress
\* operations dispatched (those whose keysym the keyboard carries), and
\* once the thread is blocked with nothing left to wake it every one of
\* them has been injected.
C19_KeyPressDeliveryAndOrder ==
    /\ IsPrefixOf(delivered, OnKeyboard(dispatched))
    /\ BridgeAtRest => delivered = OnKeyboard(dispatched)

(***************************************************************************)
(* C14: a failed connection to the display server at start-up.             *)
(***************************************************************************)
\* The Router takes the next inbound message and starts executing its list.
RouterTakesMessage == main_todo = <<>> /\ main_todo' # <<>>

\* C14: once the x11_listener thread has failed to connect to the display
\* server the process is gone: the Router handles no further message.
C14_ConnectFailureIsFatal ==
    [][x11_pc = "panicked" => ~RouterTakesMessage]_vars

(***************************************************************************)
(* Claims about the Decoder's gesture messages (SpecDecoder).              *)
(***************************************************************************)
GestureMessages ==
    {"CrownTouched", "CrownReleased", "CrownClicked", "CrownRotated"}

\* C21: the cached bitmask is 0 until a ModifiersReported frame is decoded,
\* becomes the bitmask of each ModifiersReported frame decoded and changes
\* at no other step; every gesture message sent for a frame carries the
\* bitmask cached when the frame was read; and a ModifiersReported frame
\* sends no message.
C21_ModifierStamping ==
    [][/\ FrameHandled =>
            /\ \A i \in DOMAIN hid_out' :
                  /\ hid_out'[i].msg \in GestureMessages
                  /\ hid_out'[i].modifiers = modifiers
            /\ hid_event'[1].kind = "KeyPress" =>
                  /\ hid_out' = <<>>
                  /\ modifiers' = hid_event'[1].modifiers
            /\ hid_event'[1].kind # "KeyPress" => modifiers' = modifiers
       /\ ~FrameHandled => modifiers' = modifiers
       /\ hid_event = <<>> => modifiers = 0]_vars

\* C21 witness: after a ModifiersReported frame with a bitmask other than
\* 0, a click was sent carrying that bitmask.
C21_Witness ==
    /\ LastFrameWas("Release")
    /\ modifiers # 0
    /\ hid_out = <<[msg |-> "CrownClicked", modifiers |-> modifiers]>>

\* C22: a Touched frame sends exactly one CrownTouched message and a
\* ReleasedTouch frame exactly one CrownReleased message, whatever the
\* press/rotation state, and neither changes the press/rotation state,
\* the ratchet flag or the cached bitmask.
C22_TouchBypass ==
    [][(FrameHandled /\ hid_event'[1].kind \in {"Touch", "Leave"}) =>
          /\ Len(hid_out') = 1
          /\ hid_out'[1].msg = IF hid_event'[1].kind = "Touch"
                               THEN "CrownTouched" ELSE "CrownReleased"
          /\ had_rotation' = had_rotation
          /\ since_press' = since_press
          /\ ratchet_enabled' = ratchet_enabled
          /\ modifiers' = modifiers]_vars

\* C22 witness: a ReleasedTouch frame was handled while the crown was held
\* after a significant rotation, and one CrownReleased message was sent.
C22_Witness ==
    /\ LastFrameWas("Leave")
    /\ since_press = "sig"
    /\ had_rotation
    /\ Len(hid_out) = 1
    /\ hid_out[1].msg = "CrownReleased"

\* C23: a ModifiersReported frame whose bitmask derives a Modifier other
\* than the Router's tracked one makes the Decoder send the Router a
\* ModifiersChanged message with that bitmask.
C23_ModifiersReachRouter ==
    [][(/\ FrameHandled
        /\ hid_event'[1].kind = "KeyPress"
        /\ ModifierFrom(hid_event'[1].modifiers) # last_modifiers) =>
          \E i \in DOMAIN hid_out' :
              /\ hid_out'[i].msg = "ModifiersChanged"
              /\ hid_out'[i].modifiers = hid_event'[1].modifiers]_vars

(***************************************************************************)
(* Claims about the Router's tracked mode and commands (SpecRouter).       *)
(***************************************************************************)
\* C24: once the Router has handled a message, its tracked mode is
\* ratchetModeFor(tracked Modifier) on the Resolver's views as that
\* message's handling left them.
C24_TrackedModeInStep ==
    res # <<>> => last_mode = ModeFor(last_modifiers)

(***************************************************************************)
(* Claims about clicks and presses (SpecDecoder).                          *)
(***************************************************************************)
\* C25: a ReleasedAfterPress frame that arrives before any Pressed frame
\* sends no message, so no CrownClicked.
C25_NoClickWithoutPress ==
    [][(/\ FrameHandled
        /\ hid_event'[1].kind = "Release"
        /\ since_press = "none") => hid_out' = <<>>]_vars

\* C26: when a ReleasedAfterPress frame that has a Pressed frame before it
\* sends no CrownClicked, a CrownRotated message was sent between that
\* Pressed frame and the release.
C26_SuppressedClickHadRotation ==
    [][(/\ FrameHandled
        /\ hid_event'[1].kind = "Release"
        /\ since_press # "none"
        /\ hid_out' = <<>>) => sent_rotation]_vars

(***************************************************************************)
(* Claims about the Router's ratchet commands (SpecRouter).                *)
(***************************************************************************)
\* The command that puts the Decoder in `mode`.
CommandOfMode(mode) ==
    IF mode = "Ratcheted" THEN "EnableRatchet" ELSE "DisableRatchet"

\* A step of the Router loop in which a command is sent.
RouterSends ==
    /\ res' # <<>>
    /\ sent_cmds' # <<>>
    /\ <<res', last_mode', sent_cmds'>> # <<res, last_mode, sent_cmds>>

\* C27: the tracked mode starts as Ratcheted and changes only in a step
\* that sends a command; such a step sends one command, the one of the new
\* tracked mode, and it differs from the command of the tracked mode
\* before.  So the first command sent is DisableRatchet and no two
\* consecutive commands are equal.
C27_CommandsAlternate ==
    [][/\ RouterSends =>
            /\ Len(sent_cmds') = 1
            /\ sent_cmds'[1] = CommandOfMode(last_mode')
            /\ sent_cmds'[1] # CommandOfMode(last_mode)
       /\ ~RouterSends => last_mode' = last_mode
       /\ res = <<>> => last_mode = "Ratcheted"]_vars

\* C27 witness: EnableRatchet was sent, which is never the first command:
\* a DisableRatchet was sent before it.
C27_Witness ==
    /\ res # <<>>
    /\ sent_cmds = <<"EnableRatchet">>
    /\ last_mode = "Ratcheted"

====
